---- MODULE Spec2Model ----
(***************************************************************************)
(* State-machine model of the asynchronous ZIP reader in                   *)
(* src/src/read/tokio.rs: the archive facade (ZipArchive), the entry       *)
(* reader (ZipFile), the entry open procedure (find_content / get_reader)  *)
(* and the bulk extractor (ZipArchive::extract with its background         *)
(* directory task).                                                        *)
(*                                                                         *)
(* Results of calls are strings: "Ok", the ZipError variants of            *)
(* src/src/result.rs with their message, and "Panic:<macro>" for a Rust    *)
(* panic (unwrap on None, todo!, assert!, expect).  A panic is not a       *)
(* value of ZipResult.                                                     *)
(***************************************************************************)
EXTENDS Integers, Sequences, FiniteSets, TLC

\* ---------------------------------------------------------------- bounds
\* Largest number of central-directory records of an archive.
MaxEntries == 2
\* Number of I/O faults (source read/seek errors, mkdir errors other than
\* already-exists) the environment may inject in one behaviour.
MaxFaults == 1

\* ------------------------------------------------------------- constants
LOCAL_FILE_HEADER_SIGNATURE == 67324752
magic_and_header == 30
CENTRAL_DIRECTORY_HEADER_SIGNATURE == 33639248

\* ---------------------------------------------------------------- errors
\* ZipError (src/src/result.rs): the error values a ZipResult can carry.
ZipError ==
    { "Io",
      "InvalidArchive:Invalid local file header",
      "InvalidArchive:Invalid file path",
      "UnsupportedArchive",
      "FileNotFound" }

InvalidArchiveErrors ==
    { "InvalidArchive:Invalid local file header",
      "InvalidArchive:Invalid file path" }

Panics ==
    { "Panic:unwrap", "Panic:todo", "Panic:assert", "Panic:expect",
      "Panic:overflow" }

\* ------------------------------------------------------------ input data
\* Central-directory records the archives under test are built from.  A
\* file name is the sequence of its path components.  `signature` is the
\* 32-bit value found at header_start in the source; `content` is what the
\* decompression pipeline yields for the payload.
EntryPool ==
    { [file_name |-> <<"a", "f">>, compression_method |-> "Stored",
       header_start |-> 0, signature |-> LOCAL_FILE_HEADER_SIGNATURE,
       file_name_length |-> 3, extra_field_length |-> 0,
       compressed_size |-> 2, content |-> <<1, 2>>],
      [file_name |-> <<"a", "b", "g">>, compression_method |-> "Deflated",
       header_start |-> 40, signature |-> LOCAL_FILE_HEADER_SIGNATURE,
       file_name_length |-> 5, extra_field_length |-> 4,
       compressed_size |-> 3, content |-> <<3>>],
      [file_name |-> <<"h">>, compression_method |-> "Stored",
       header_start |-> 90, signature |-> LOCAL_FILE_HEADER_SIGNATURE,
       file_name_length |-> 1, extra_field_length |-> 0,
       compressed_size |-> 1, content |-> <<4>>],
      [file_name |-> <<"..", "escape">>, compression_method |-> "Stored",
       header_start |-> 130, signature |-> LOCAL_FILE_HEADER_SIGNATURE,
       file_name_length |-> 9, extra_field_length |-> 0,
       compressed_size |-> 1, content |-> <<5>>],
      [file_name |-> <<"a", "k">>, compression_method |-> "Bzip2",
       header_start |-> 180, signature |-> LOCAL_FILE_HEADER_SIGNATURE,
       file_name_length |-> 3, extra_field_length |-> 0,
       compressed_size |-> 1, content |-> <<6>>],
      [file_name |-> <<"c", "m">>, compression_method |-> "Stored",
       header_start |-> 220, signature |-> 0,
       file_name_length |-> 3, extra_field_length |-> 0,
       compressed_size |-> 1, content |-> <<7>>] }

\* All sequences over S of length at most n.
SeqsUpTo(S, n) == UNION { [1..k -> S] : k \in 0..n }

\* The central directories a source may carry.
Archives == SeqsUpTo(EntryPool, MaxEntries)

\* Names a caller may pass to by_name: every pool name and one that no
\* archive contains.
LookupNames == { e.file_name : e \in EntryPool } \cup { <<"zz">> }

\* Suspension points of find_content, in program order.
IoPoints ==
    << "seek_header", "read_signature", "seek_current",
       "read_file_name_length", "read_extra_field_length", "seek_data_start" >>

IoPointSet == { IoPoints[k] : k \in DOMAIN IoPoints }

VARIABLES
    cd,         \* the central directory records of the source (input)
    arch,       \* "unopened" | "open" | "failed" | "consumed"
    files,      \* Shared.files: the IndexMap, as the sequence of its values
    reader,     \* ZipArchive.reader, the slot: TRUE = Some(source), FALSE = None
    live,       \* the live ZipFile objects (each owns the source)
    fut,        \* the by_index future suspended in get_reader (owns the source)
    strm,       \* the entries_stream generator held by the caller
    res,        \* the last call, its state at the call, what it returned
    cancelled,  \* history: a future was dropped at a suspension point
    faults,     \* I/O faults the environment may still inject
    fgpc,       \* extract, foreground: position in the loop
    fgIdx,      \* extract, foreground: index of the entry being processed
    fgDirs,     \* extract_single: new_dirs of the fallback
    fgK,        \* extract_single: position in the fallback's mkdir loop
    bgpc,       \* dirs_task: position ("none" before the spawn)
    bgBatch,    \* dirs_task: the batch received
    bgK,        \* dirs_task: position in the batch's mkdir loop
    bgRes,      \* dirs_task: its result once it has returned
    chan,       \* the unbounded channel: batches in flight
    tx,         \* the sender is alive
    rx,         \* the receiver is alive
    paths,      \* CompletedPaths: the registry
    fsDirs,     \* directories that exist under root
    fsFiles,    \* files that exist under root, with their bytes
    enq,        \* history: the batches sent, with the entry they were sent for
    starved,    \* history: dirs_task had received no batch when the loop ended
    lay,        \* find_content: the layout the source bytes were written from
    image,      \* find_content: the bytes of the source
    position,   \* find_content: the stream position of the source
    datas,      \* find_content: the ZipFileData of the entries, with data_start
    limiter,    \* find_content: the Limiter that wraps the source, if any
    ores,       \* find_content: the last call and its result
    obuf,       \* find_content: the bytes read from the Limiter
    disk,       \* new: the archive file the source holds
    npc,        \* new: position in ZipArchive::new
    cde,        \* new: footer and cde_start_pos
    counts,     \* new: archive_offset, directory_start, number_of_files
    stream_pos, \* new: the stream position of the source
    parsed,     \* new: files, the IndexMap being filled
    file_data,  \* central_header_to_zip_file_inner: result, the ZipFileData
    xcur,       \* parse_extra_field: the position of the Cursor
    xlast,      \* parse_extra_field: the record the last iteration handled
    hres,       \* central_header_to_zip_file: what the last call returned
    wide,       \* find_content on 64-bit positions: its inputs and its result
    nres        \* new: what it returned

archVars == << cd, arch, files, reader, live, fut, strm, res, cancelled, faults >>
fgVars == << fgpc, fgIdx, fgDirs, fgK >>
bgVars == << bgpc, bgBatch, bgK, bgRes >>
chanVars == << chan, tx, rx >>
fsVars == << fsDirs, fsFiles >>
exVars == << fgVars, bgVars, chanVars, paths, fsVars, enq, starved >>
openVars == << lay, image, position, datas, limiter, ores, obuf >>
parseVars == << disk, npc, cde, counts, stream_pos, parsed, file_data, xcur,
               xlast, hres, nres >>
wideVars == << wide >>
byteVars == << openVars, parseVars, wideVars >>
vars == << archVars, exVars, byteVars >>

NoFut == [index |-> -1, via |-> "none"]
NoStream == [alive |-> FALSE, i |-> 0, ended |-> FALSE]

\* The record of a call: the operation, the entry index it is about (-1:
\* none), its result, and what the call found: `busy`, a ZipFile is alive;
\* `slot`, the source is in the slot; `again`, the call before it was an
\* extract that returned Ok.
Call(op, index, result) ==
    [op |-> op, index |-> index, result |-> result, busy |-> live # {},
     slot |-> reader, again |-> (res.op = "extract" /\ res.result = "Ok")]

\* ------------------------------------------------------- pure procedures

\* find_content: the local-header walk.  `io` names the suspension point at
\* which the source fails ("none": it does not).  Yields the result and, on
\* success, data_start and the window length handed to Limiter::take.
find_content(data, io) ==
    IF io \in { "seek_header", "read_signature" }
    THEN [result |-> "Io", data_start |-> 0, limit |-> 0]
    ELSE IF data.signature # LOCAL_FILE_HEADER_SIGNATURE
    THEN [result |-> "InvalidArchive:Invalid local file header",
          data_start |-> 0, limit |-> 0]
    ELSE IF io \in { "seek_current", "read_file_name_length",
                     "read_extra_field_length" }
    THEN [result |-> "Io", data_start |-> 0, limit |-> 0]
    ELSE LET data_start == data.header_start + magic_and_header
                           + data.file_name_length + data.extra_field_length
         IN  IF io = "seek_data_start"
             THEN [result |-> "Io", data_start |-> data_start, limit |-> 0]
             ELSE [result |-> "Ok", data_start |-> data_start,
                   limit |-> data.compressed_size]

\* ZipFileWrappedReader::construct: the switch on the compression method.
construct(data) ==
    IF data.compression_method = "Stored" THEN "Stored"
    ELSE IF data.compression_method = "Deflated" THEN "Deflated"
    ELSE "Panic:todo"

\* get_reader: find_content, `?`, then construct.
get_reader(data, io) ==
    LET limited_reader == find_content(data, io)
    IN  IF limited_reader.result # "Ok" THEN limited_reader.result
        ELSE IF construct(data) = "Panic:todo" THEN "Panic:todo"
        ELSE "Ok"

\* The loop of ZipArchive::new over the central directory: every record is
\* inserted into the IndexMap under its decoded name, and the insert is
\* asserted to find no previous value.
RECURSIVE new_loop(_, _)
new_loop(rest, map) ==
    IF rest = << >> THEN [result |-> "Ok", files |-> map]
    ELSE LET file == Head(rest)
         IN  IF \E k \in DOMAIN map : map[k].file_name = file.file_name
             THEN [result |-> "Panic:assert", files |-> << >>]
             ELSE new_loop(Tail(rest), Append(map, file))

\* IndexMap::get_index_of: the 0-based position of a name, -1 for None.
get_index_of(map, name) ==
    IF \E k \in DOMAIN map : map[k].file_name = name
    THEN (CHOOSE k \in DOMAIN map : map[k].file_name = name) - 1
    ELSE -1


\* ------------------------------------------------- paths and filesystem

\* Path::parent, for a relative path given by its components.
Parent(p) == SubSeq(p, 1, Len(p) - 1)

\* ZipFileData::enclosed_name: the relative path of the name, or None
\* (<< >>) when the name is absolute or has a `..` component.
enclosed_name(file_name) ==
    IF \E k \in DOMAIN file_name : file_name[k] \in { "..", "", "/" }
    THEN << >>
    ELSE file_name

\* CompletedPaths::new_containing_dirs_needed: the ancestor directories of
\* `name` the registry does not list, parent before child.
new_containing_dirs_needed(registry, name) ==
    LET containing_dirs == [k \in 1..(Len(name) - 1) |-> SubSeq(name, 1, k)]
    IN  SelectSeq(containing_dirs, LAMBDA d : d \notin registry)

\* CompletedPaths::write_dirs: the registry with the batch added.
write_dirs(registry, new_dirs) ==
    registry \cup { new_dirs[k] : k \in DOMAIN new_dirs }

\* fs::create_dir on root.join(dir): the io::ErrorKind it ends with.
create_dir(dirs, fls, dir) ==
    IF dir \in dirs \/ dir \in DOMAIN fls THEN "AlreadyExists"
    ELSE IF Parent(dir) # << >> /\ Parent(dir) \notin dirs THEN "NotFound"
    ELSE "Ok"

\* Faulty variant of create_dir_idempotent: already-exists is propagated too.
create_dir_not_idempotent(dirs, fls, dir, fault) ==
    IF fault THEN "Io"
    ELSE IF create_dir(dirs, fls, dir) = "Ok" THEN "Ok"
    ELSE "Io"

\* create_dir_idempotent: already-exists is success, every other error is
\* propagated.  `fault` is an I/O error of the environment (for instance
\* permission denied).
create_dir_idempotent(dirs, fls, dir, fault) ==
    IF fault THEN "Io"
    ELSE IF create_dir(dirs, fls, dir) \in { "Ok", "AlreadyExists" } THEN "Ok"
    ELSE "Io"

\* The directories after a create_dir_idempotent that returned Ok.
DirsAfterMkdir(dirs, fls, dir) ==
    IF create_dir(dirs, fls, dir) = "Ok" THEN dirs \cup { dir } ELSE dirs

\* Faulty variant of file_create: a target that exists is refused.
file_create_new(dirs, fls, target, fault) ==
    IF Parent(target) # << >> /\ Parent(target) \notin dirs
    THEN IF Parent(target) \in DOMAIN fls THEN "Other" ELSE "NotFound"
    ELSE IF fault \/ target \in dirs \/ target \in DOMAIN fls THEN "Other"
    ELSE "Ok"

\* fs::File::create on root.join(name): the io::ErrorKind it ends with.
file_create(dirs, fls, target, fault) ==
    IF Parent(target) # << >> /\ Parent(target) \notin dirs
    THEN IF Parent(target) \in DOMAIN fls THEN "Other" ELSE "NotFound"
    ELSE IF fault \/ target \in dirs THEN "Other"
    ELSE "Ok"

\* The files after a File::create that returned Ok: the target exists and
\* is empty (created or truncated).
FilesAfterCreate(fls, target, bytes) ==
    [p \in DOMAIN fls \cup { target } |-> IF p = target THEN bytes ELSE fls[p]]

\* A fault the environment may inject now.
FaultChoices == IF faults > 0 THEN { FALSE, TRUE } ELSE { FALSE }
IoChoices == IF faults > 0 THEN { "none" } \cup IoPointSet ELSE { "none" }

\* ------------------------------------------------------------------ Init
\* The archive facade before ZipArchive::new, over the directory `c`.
ArchiveInit(c) ==
    /\ cd = c
    /\ arch = "unopened"
    /\ files = << >>
    /\ reader = FALSE
    /\ live = {}
    /\ fut = NoFut
    /\ strm = NoStream
    /\ res = [op |-> "none", index |-> -1, result |-> "none", busy |-> FALSE,
               slot |-> FALSE, again |-> FALSE]
    /\ cancelled = FALSE
    /\ faults = MaxFaults
    /\ fgpc = "idle"
    /\ fgIdx = 0
    /\ fgDirs = << >>
    /\ fgK = 1
    /\ bgpc = "none"
    /\ bgBatch = << >>
    /\ bgK = 1
    /\ bgRes = "none"
    /\ chan = << >>
    /\ tx = FALSE
    /\ rx = FALSE
    /\ paths = {}
    /\ fsDirs = {}
    /\ fsFiles = << >>
    /\ enq = {}
    /\ starved = FALSE

\* ------------------------------------------ the source, byte by byte
\* The claims about find_content are settled on the bytes of a source: the
\* local headers and payloads of an archive, behind `prefix` bytes that do
\* not belong to it.

\* u16 / u32 little-endian, as the writer lays them down.
le16(n) == << n % 256, n \div 256 >>
le32(n) == << n % 256, (n \div 256) % 256, (n \div 65536) % 256, n \div 16777216 >>

\* AsyncReadExt::read_u16_le / read_u32_le at stream position `pos` (the
\* caller has checked that the bytes are there).
read_u16_le(bytes, pos) == bytes[pos + 1] + 256 * bytes[pos + 2]
read_u32_le(bytes, pos) ==
    bytes[pos + 1] + 256 * bytes[pos + 2] + 65536 * bytes[pos + 3]
        + 16777216 * bytes[pos + 4]

\* n bytes of value b.
Fill(b, n) == [k \in 1..n |-> b]

\* The concatenation of a sequence of byte sequences.
RECURSIVE Flatten(_)
Flatten(ss) == IF ss = << >> THEN << >> ELSE Head(ss) \o Flatten(Tail(ss))

\* Entries as the writer of the tests lays them down: the name, the extra
\* field of the local header, the payload (compressed_size bytes), the
\* signature, and the length of the extra field of the central record,
\* which is not that of the local one for the second and the third.
LocalPool ==
    { [name |-> << 97 >>, local_extra |-> << >>, central_extra_len |-> 0,
       payload |-> << 101, 102 >>, signature |-> LOCAL_FILE_HEADER_SIGNATURE],
      [name |-> << 98, 99 >>, local_extra |-> << 9, 9, 9 >>,
       central_extra_len |-> 0,
       payload |-> << 103 >>, signature |-> LOCAL_FILE_HEADER_SIGNATURE],
      [name |-> << 100 >>, local_extra |-> << >>, central_extra_len |-> 4,
       payload |-> << 104, 105, 106 >>,
       signature |-> LOCAL_FILE_HEADER_SIGNATURE],
      [name |-> << 107 >>, local_extra |-> << >>, central_extra_len |-> 0,
       payload |-> << 108 >>,
       signature |-> CENTRAL_DIRECTORY_HEADER_SIGNATURE] }

\* Bytes in front of the archive.
Prefixes == { 0, 3 }

Layouts ==
    { [prefix |-> k, entries |-> es] :
        k \in Prefixes, es \in SeqsUpTo(LocalPool, MaxEntries) \ { << >> } }

\* A local file header with its name, extra field and payload.
LocalRecord(e) ==
    le32(e.signature) \o Fill(0, 22) \o le16(Len(e.name))
        \o le16(Len(e.local_extra)) \o e.name \o e.local_extra \o e.payload

\* The bytes of the source.
Image(l) ==
    Fill(90, l.prefix)
        \o Flatten([k \in 1..Len(l.entries) |-> LocalRecord(l.entries[k])])

\* The offset of entry k's local header as the central record has it.
RelOffset(l, k) ==
    Len(Flatten([j \in 1..(k - 1) |-> LocalRecord(l.entries[j])]))

\* The ZipFileData of the entries as ZipArchive::new leaves them:
\* header_start shifted by the archive offset, data_start 0.
Datas(l) ==
    [k \in 1..Len(l.entries) |->
        [header_start |-> l.prefix + RelOffset(l, k),
         compressed_size |-> Len(l.entries[k].payload),
         file_name_length |-> Len(l.entries[k].name),
         extra_field_length |-> l.entries[k].central_extra_len,
         data_start |-> 0]]

NoLimiter == [index |-> 0, cur_pos |-> 0, limit |-> 0, read |-> 0]
NoOpen == [index |-> 0, io |-> "none", result |-> "none", from |-> 0, before |-> 0]

\* What find_content ends with: its result, whether it has stored
\* data_start, and the Limiter's start and length.
Found(result, stored, data_start, limit) ==
    [result |-> result, stored |-> stored, data_start |-> data_start,
     cur_pos |-> data_start, limit |-> limit]

\* Faulty variant of find_content_in: data_start from the lengths of the
\* central record.
find_content_central_lengths(data, src, io) ==
    LET data_start == data.header_start + magic_and_header
                      + data.file_name_length + data.extra_field_length
    IN  IF io # "none" \/ data.header_start + magic_and_header > Len(src.bytes)
        THEN Found("Io", FALSE, 0, 0)
        ELSE IF read_u32_le(src.bytes, data.header_start)
                    # LOCAL_FILE_HEADER_SIGNATURE
        THEN Found("InvalidArchive:Invalid local file header", FALSE, 0, 0)
        ELSE Found("Ok", TRUE, data_start, data.compressed_size)

\* Faulty variant of find_content_in: data_start is stored before the
\* signature is checked.
find_content_store_first(data, src, io) ==
    LET data_start == data.header_start + magic_and_header
    IN  IF io # "none" \/ data.header_start + magic_and_header > Len(src.bytes)
        THEN Found("Io", FALSE, 0, 0)
        ELSE IF read_u32_le(src.bytes, data.header_start)
                    # LOCAL_FILE_HEADER_SIGNATURE
        THEN Found("InvalidArchive:Invalid local file header", TRUE, data_start, 0)
        ELSE Found("Ok", TRUE,
                   data_start + read_u16_le(src.bytes, data.header_start + 26)
                       + read_u16_le(src.bytes, data.header_start + 28),
                   data.compressed_size)

\* Faulty variant of find_content_in: the first seek is relative to the
\* position the source was left at.
find_content_seek_current(data, src, io) ==
    LET hs == src.pos + data.header_start
        data_start == hs + magic_and_header
    IN  IF io # "none" \/ data_start > Len(src.bytes)
        THEN Found("Io", FALSE, 0, 0)
        ELSE IF read_u32_le(src.bytes, hs) # LOCAL_FILE_HEADER_SIGNATURE
        THEN Found("InvalidArchive:Invalid local file header", FALSE, 0, 0)
        ELSE Found("Ok", TRUE,
                   data_start + read_u16_le(src.bytes, hs + 26)
                       + read_u16_le(src.bytes, hs + 28),
                   data.compressed_size)

\* find_content on the bytes: `src` is the source (its bytes and its
\* stream position), `io` the suspension point at which it fails with an
\* I/O error of the environment ("none": it does not).  A read past the
\* end of the bytes is an I/O error (unexpected eof); a seek past the end is
\* not one.
find_content_in(data, src, io) ==
    LET bytes == src.bytes
        sig_pos == data.header_start
        len_pos == sig_pos + 4 + 22
    IN  IF io = "seek_header" THEN Found("Io", FALSE, 0, 0)
        ELSE IF io = "read_signature" \/ sig_pos + 4 > Len(bytes)
        THEN Found("Io", FALSE, 0, 0)
        ELSE IF read_u32_le(bytes, sig_pos) # LOCAL_FILE_HEADER_SIGNATURE
        THEN Found("InvalidArchive:Invalid local file header", FALSE, 0, 0)
        ELSE IF io = "seek_current" THEN Found("Io", FALSE, 0, 0)
        ELSE IF io = "read_file_name_length" \/ len_pos + 2 > Len(bytes)
        THEN Found("Io", FALSE, 0, 0)
        ELSE IF io = "read_extra_field_length" \/ len_pos + 4 > Len(bytes)
        THEN Found("Io", FALSE, 0, 0)
        ELSE LET file_name_length == read_u16_le(bytes, len_pos)
                 extra_field_length == read_u16_le(bytes, len_pos + 2)
                 data_start == data.header_start + magic_and_header
                               + file_name_length + extra_field_length
             IN  IF io = "seek_data_start"
                 THEN Found("Io", TRUE, data_start, 0)
                 ELSE Found("Ok", TRUE, data_start, data.compressed_size)

\* Limiter's poll_read of a buffer of n bytes: the request is clamped to
\* what remains of the window, and to what the source has.
Limiter_read(lim, bytes, n) ==
    LET pos == lim.cur_pos + lim.read
        remaining == lim.limit - lim.read
        avail == IF Len(bytes) > pos THEN Len(bytes) - pos ELSE 0
        m == IF n <= remaining THEN n ELSE remaining
        got == IF m <= avail THEN m ELSE avail
    IN  SubSeq(bytes, pos + 1, pos + got)

\* No source is under a find_content.
OpenIdle ==
    /\ lay = [prefix |-> 0, entries |-> << >>]
    /\ image = << >>
    /\ position = 0
    /\ datas = << >>
    /\ limiter = NoLimiter
    /\ ores = NoOpen
    /\ obuf = << >>

\* ------------------------------------------- 64-bit values, extra fields
\* A u64 is kept as its four 16-bit limbs, least significant first: the
\* sentinel 0xffffffff and the values of ZIP64 records do not fit the
\* integers of the checker.
U(n) == << n % 65536, n \div 65536, 0, 0 >>

\* spec::ZIP64_BYTES_THR, 0xffffffff.
ZIP64_BYTES_THR == << 65535, 65535, 0, 0 >>

\* The value as an index into bytes, when it is below 2^30; -1 otherwise
\* (such a position is past the end of every source here).
Index(x) ==
    IF x[3] = 0 /\ x[4] = 0 /\ x[2] < 16384 THEN x[1] + 65536 * x[2] ELSE -1

\* u64::checked_add: None (<< >>) on overflow.
checked_add(a, b) ==
    LET s1 == a[1] + b[1]
        s2 == a[2] + b[2] + s1 \div 65536
        s3 == a[3] + b[3] + s2 \div 65536
        s4 == a[4] + b[4] + s3 \div 65536
    IN  IF s4 \div 65536 # 0 THEN << >>
        ELSE << s1 % 65536, s2 % 65536, s3 % 65536, s4 % 65536 >>

\* u64::checked_sub: None (<< >>) on underflow.
checked_sub(a, b) ==
    LET d1 == a[1] - b[1]
        b1 == IF d1 < 0 THEN 1 ELSE 0
        d2 == a[2] - b[2] - b1
        b2 == IF d2 < 0 THEN 1 ELSE 0
        d3 == a[3] - b[3] - b2
        b3 == IF d3 < 0 THEN 1 ELSE 0
        d4 == a[4] - b[4] - b3
    IN  IF d4 < 0 THEN << >>
        ELSE << d1 + 65536 * b1, d2 + 65536 * b2, d3 + 65536 * b3, d4 >>

\* u64 little-endian, written and read.
le64(x) == le16(x[1]) \o le16(x[2]) \o le16(x[3]) \o le16(x[4])
read_u64_le(bytes, pos) ==
    << read_u16_le(bytes, pos), read_u16_le(bytes, pos + 2),
       read_u16_le(bytes, pos + 4), read_u16_le(bytes, pos + 6) >>

\* The kinds of extra-field records parse_extra_field knows, and the AES
\* vendor id.
ZIP64_KIND == 1
AES_KIND == 39169
AES_LEN == 7
AES_VENDOR == 17729

\* CompressionMethod::from_u16.
from_u16(m) ==
    IF m = 0 THEN "Stored"
    ELSE IF m = 8 THEN "Deflated"
    ELSE IF m = 12 THEN "Bzip2"
    ELSE IF m = 99 THEN "AES"
    ELSE "Unsupported"

\* The state of one iteration of the loop of parse_extra_field: the
\* ZipFileData, the cursor, len_left, the error it has met, and the fields
\* it has replaced by a 64-bit value.
Scan(file, p, len_left, err, consumed) ==
    [file |-> file, p |-> p, len_left |-> len_left, err |-> err,
     consumed |-> consumed]

\* One `if file.<field> == spec::ZIP64_BYTES_THR { .. }` of the ZIP64 arm.
\* large_file is set before the read; a read past the end of the extra
\* field is the I/O error that `?` returns.
zip64_field(st, field, sets_large) ==
    IF st.err # "none" \/ st.file[field] # ZIP64_BYTES_THR THEN st
    ELSE LET marked == IF sets_large
                       THEN [st.file EXCEPT !.large_file = TRUE]
                       ELSE st.file
         IN  IF st.p + 8 > Len(st.file.extra_field)
             THEN Scan(marked, st.p, st.len_left, "Io", st.consumed)
             ELSE Scan([marked EXCEPT
                           ![field] = read_u64_le(st.file.extra_field, st.p)],
                       st.p + 8, st.len_left - 8, "none",
                       st.consumed \cup { field })

\* The AES arm.
aes_record(st, len) ==
    LET x == st.file.extra_field
    IN  IF len # AES_LEN
        THEN [st EXCEPT !.err =
                "UnsupportedArchive:AES extra data field has an unsupported length"]
        ELSE IF st.p + 7 > Len(x) THEN [st EXCEPT !.err = "Io"]
        ELSE LET vendor_version == read_u16_le(x, st.p)
                 vendor_id == read_u16_le(x, st.p + 2)
                 aes_mode == x[st.p + 5]
                 compression_method == read_u16_le(x, st.p + 5)
             IN  IF vendor_id # AES_VENDOR
                 THEN [st EXCEPT !.err = "InvalidArchive:Invalid AES vendor"]
                 ELSE IF vendor_version \notin { 1, 2 }
                 THEN [st EXCEPT !.err =
                         "InvalidArchive:Invalid AES vendor version"]
                 ELSE IF aes_mode \notin { 1, 2, 3 }
                 THEN [st EXCEPT !.err =
                         "InvalidArchive:Invalid AES encryption strength"]
                 ELSE Scan([st.file EXCEPT
                               !.aes_mode = << aes_mode, vendor_version >>,
                               !.compression_method =
                                   from_u16(compression_method)],
                           st.p + 7, st.len_left, "none", st.consumed)

\* The seek that ends an iteration: forward by len_left when it is positive.
skip_residual(st) ==
    IF st.err = "none" /\ st.len_left > 0
    THEN [st EXCEPT !.p = @ + st.len_left]
    ELSE st

\* One iteration of the loop of parse_extra_field, from cursor position p.
extra_record(file, p) ==
    LET x == file.extra_field
    IN  IF p + 4 > Len(x) THEN Scan(file, p, 0, "Io", {})
        ELSE LET kind == read_u16_le(x, p)
                 len == read_u16_le(x, p + 2)
                 st == Scan(file, p + 4, len, "none", {})
             IN  IF kind = ZIP64_KIND
                 THEN skip_residual(
                        zip64_field(
                          zip64_field(
                            zip64_field(st, "uncompressed_size", TRUE),
                            "compressed_size", TRUE),
                          "header_start", FALSE))
                 ELSE IF kind = AES_KIND THEN skip_residual(aes_record(st, len))
                 ELSE skip_residual(st)

\* ------------------------------------------- central directories as written
\* An extra-field record: kind, declared length, payload.
ExtraRec(kind, len, payload) == le16(kind) \o le16(len) \o payload

\* Values of ZIP64 records: 2^32 + 1 and 2^48 + 5.
Wide1 == << 1, 0, 1, 0 >>
Wide2 == << 5, 0, 0, 1 >>
AesPayload(version, vendor, strength, method) ==
    le16(version) \o le16(vendor) \o << strength >> \o le16(method)

\* A central directory record as the writer laid it down: the fields of
\* the fixed part that new() keeps, and the bytes of the extra field.  A
\* record with `sentinel_offset` carries 0xffffffff as its 32-bit offset;
\* the others carry the offset of their local header.
Central(name, method, csize, usize, sentinel_offset, extra) ==
    [file_name |-> name, file_name_length |-> 1,
     compression_method |-> method,
     compressed_size |-> csize, uncompressed_size |-> usize,
     sentinel_offset |-> sentinel_offset, extra_field |-> extra]

\* Records of valid archives without ZIP64: no extra field, one record of
\* an unknown kind, an AES record.
PlainPool ==
    { Central("a", 0, U(2), U(2), FALSE, << >>),
      Central("b", 8, U(3), U(9), FALSE, ExtraRec(10, 2, << 7, 7 >>)),
      Central("f", 99, U(4), U(4), FALSE,
              ExtraRec(AES_KIND, AES_LEN, AesPayload(2, AES_VENDOR, 3, 8))) }

\* Records with ZIP64 records, with several records, and malformed ones:
\* "g" declares 8 bytes for two 64-bit sizes, "h" has a ZIP64 record
\* behind an AES record, "m" has the largest 64-bit header start, "i" to
\* "l" have AES records that must be refused.
WholePool ==
    PlainPool \cup
    { Central("c", 8, ZIP64_BYTES_THR, ZIP64_BYTES_THR, FALSE,
              ExtraRec(ZIP64_KIND, 16, le64(Wide1) \o le64(Wide2))),
      Central("d", 0, U(2), U(2), TRUE,
              ExtraRec(ZIP64_KIND, 8, le64(Wide1))),
      Central("e", 8, U(3), ZIP64_BYTES_THR, FALSE,
              ExtraRec(10, 2, << 7, 7 >>)
                  \o ExtraRec(ZIP64_KIND, 24,
                              le64(Wide1) \o le64(U(0)) \o le64(U(0)))
                  \o ExtraRec(10, 1, << 7 >>)),
      Central("g", 8, ZIP64_BYTES_THR, ZIP64_BYTES_THR, FALSE,
              ExtraRec(ZIP64_KIND, 8, le64(Wide1))
                  \o ExtraRec(10, 4, << 7, 7, 7, 7 >>)),
      Central("h", 99, ZIP64_BYTES_THR, U(4), FALSE,
              ExtraRec(AES_KIND, AES_LEN, AesPayload(1, AES_VENDOR, 1, 8))
                  \o ExtraRec(ZIP64_KIND, 8, le64(Wide2))),
      Central("m", 0, U(2), U(2), TRUE,
              ExtraRec(ZIP64_KIND, 8, le64(<< 65535, 65535, 65535, 65535 >>))
                  \o ExtraRec(10, 2, << 7, 7 >>)),
      Central("i", 99, U(4), U(4), FALSE,
              ExtraRec(AES_KIND, 6, << 2, 0, 69, 69, 3, 8 >>)),
      Central("j", 99, U(4), U(4), FALSE,
              ExtraRec(AES_KIND, AES_LEN, AesPayload(2, 17730, 3, 8))),
      Central("k", 99, U(4), U(4), FALSE,
              ExtraRec(AES_KIND, AES_LEN, AesPayload(3, AES_VENDOR, 3, 8))),
      Central("l", 99, U(4), U(4), FALSE,
              ExtraRec(AES_KIND, AES_LEN, AesPayload(2, AES_VENDOR, 4, 8))) }

\* The record with its extra field cut to n bytes (the central header
\* declares n bytes of extra field).
Cut(c, n) == [c EXCEPT !.extra_field = SubSeq(c.extra_field, 1, n)]

\* Every record of WholePool, whole and cut at every length.
CutPool ==
    UNION { { Cut(c, n) : n \in 0..Len(c.extra_field) } : c \in WholePool }

\* The bytes of the fixed part of a central record (tokio.rs:573-608).
CentralFixed == 46

\* The length of central record c, and of the records before record i.
RecLen(c) == CentralFixed + c.file_name_length + Len(c.extra_field)
RECURSIVE RecsLen(_, _)
RecsLen(recs, n) ==
    IF n = 0 THEN 0 ELSE RecsLen(recs, n - 1) + RecLen(recs[n])

\* The largest 64-bit and 32-bit values.
MaxU64 == << 65535, 65535, 65535, 65535 >>
MaxU32 == << 65535, 65535, 0, 0 >>

\* a <= b on 64-bit values.
Leq(a, b) ==
    \/ a[4] < b[4]
    \/ a[4] = b[4] /\ a[3] < b[3]
    \/ a[4] = b[4] /\ a[3] = b[3] /\ a[2] < b[2]
    \/ a[4] = b[4] /\ a[3] = b[3] /\ a[2] = b[2] /\ a[1] <= b[1]

\* A file without ZIP64 locator, without ZIP64 end-of-central-directory
\* record.
NoLocator ==
    [present |-> FALSE, disk_with_central_directory |-> 0,
     end_of_central_directory_offset |-> U(0)]
NoZip64End ==
    [present |-> FALSE, disk_number |-> 0, disk_with_central_directory |-> 0,
     number_of_files |-> 0, central_directory_offset |-> U(0)]

\* An archive file: `prefix` bytes, the local entries (40 bytes each), the
\* central directory `recs`, the ZIP64 end-of-central-directory record (56
\* bytes) and the ZIP64 locator (20 bytes) if present, the
\* end-of-central-directory record (22 bytes) and its comment.  cd_size and
\* cd_offset are what the end-of-central-directory record says; `io` is
\* the step of the source that fails with an I/O error of the environment.
\* Disk(k, recs) is the file as a writer without ZIP64 lays it down.
Disk(k, recs) ==
    [prefix |-> k, recs |-> recs,
     cd_size |-> U(RecsLen(recs, Len(recs))),
     cd_offset |-> U(40 * Len(recs)),
     comment_len |-> 0,
     locator |-> NoLocator, footer64 |-> NoZip64End,
     io |-> "none"]

\* Well-laid files: the last record is any of CutPool, the ones before it
\* are plain.
GoodDisks ==
    { Disk(k, Append(v, c)) :
        k \in Prefixes, v \in SeqsUpTo(PlainPool, MaxEntries - 1),
        c \in CutPool }

\* The steps of get_directory_counts at which the source can fail.
LocatorIo == { "none", "seek_locator", "read_locator" }

\* Files of no or one entry whose end-of-central-directory record carries
\* any size and offset: 0, the true value, more than the file holds, the
\* largest 32-bit value; with and without a comment.
TrailerDisks ==
    { [Disk(k, recs) EXCEPT !.cd_size = s, !.cd_offset = o,
                            !.comment_len = c, !.io = io] :
        k \in Prefixes,
        recs \in { << >>, << Central("a", 0, U(2), U(2), FALSE, << >>) >> },
        s \in { U(0), U(47), U(200), MaxU32 },
        o \in { U(0), U(40), U(200), MaxU32 },
        c \in { 0, 2 },
        io \in LocatorIo }

\* The ZIP64 locators and ZIP64 end-of-central-directory records a file of
\* n entries, true directory offset `body` and true ZIP64 record offset
\* `rel` may carry: as a writer lays them down, with other disk numbers,
\* other offsets, another number of files, without the record.
Zip64Trailers(n, body, rel) ==
    LET loc(dk, off) == [present |-> TRUE, disk_with_central_directory |-> dk,
                         end_of_central_directory_offset |-> off]
        end(dn, dw, nfiles, cdo) ==
            [present |-> TRUE, disk_number |-> dn,
             disk_with_central_directory |-> dw, number_of_files |-> nfiles,
             central_directory_offset |-> cdo]
    IN  { << loc(0, U(rel)), end(0, 0, n, U(body)) >>,
          << loc(1, U(rel)), end(0, 0, n, U(body)) >>,
          << loc(0, U(rel)), end(0, 1, n, U(body)) >>,
          << loc(0, U(0)), end(0, 0, n, U(body)) >>,
          << loc(0, U(rel + 1)), end(0, 0, n, U(body)) >>,
          << loc(0, MaxU64), end(0, 0, n, U(body)) >>,
          << loc(0, U(rel)), NoZip64End >>,
          << loc(0, U(0)), end(0, 0, n, MaxU64) >>,
          << loc(0, U(rel)), end(0, 0, n, MaxU64) >>,
          << loc(0, U(rel)), end(0, 0, n + 1, U(body)) >> }

\* Files of no or one entry with a ZIP64 locator; their
\* end-of-central-directory record carries the 32-bit sentinels.
Zip64Disks ==
    UNION { { [Disk(k, recs) EXCEPT !.cd_size = MaxU32, !.cd_offset = MaxU32,
                                    !.locator = z[1], !.footer64 = z[2],
                                    !.io = io] :
                k \in Prefixes,
                z \in Zip64Trailers(Len(recs), 40 * Len(recs),
                                    40 * Len(recs) + RecsLen(recs, Len(recs))),
                io \in LocatorIo } :
            recs \in { << >>,
                       << Central("a", 0, U(2), U(2), FALSE, << >>) >> } }

Disks == GoodDisks \cup TrailerDisks \cup Zip64Disks

\* The local entries take 40 bytes each; the central directory follows,
\* then the ZIP64 records, then the end-of-central-directory record.
BodyLen(d) == 40 * Len(d.recs)
RecPos(d, i) == d.prefix + BodyLen(d) + RecsLen(d.recs, i - 1)
Zip64EndPos(d) == d.prefix + BodyLen(d) + RecsLen(d.recs, Len(d.recs))
EocdPos(d) ==
    Zip64EndPos(d) + (IF d.footer64.present THEN 56 ELSE 0)
                   + (IF d.locator.present THEN 20 ELSE 0)
FileLen(d) == EocdPos(d) + 22 + d.comment_len

\* The offset field of record i, 32 bits.
RawOffset(d, i) ==
    IF d.recs[i].sentinel_offset THEN ZIP64_BYTES_THR ELSE U(40 * (i - 1))

\* The index of the central record that starts at position pos, 0 if none
\* does.
RecordAt(d, pos) ==
    IF \E i \in DOMAIN d.recs : RecPos(d, i) = pos
    THEN CHOOSE i \in DOMAIN d.recs : RecPos(d, i) = pos
    ELSE 0

\* spec::CentralDirectoryEnd::find_and_parse_async: the footer and the
\* position it was found at.
find_and_parse(d) ==
    [footer |-> [disk_number |-> 0, disk_with_central_directory |-> 0,
                 record_too_small |-> FALSE,
                 number_of_files_on_this_disk |-> Len(d.recs),
                 central_directory_size |-> d.cd_size,
                 central_directory_offset |-> d.cd_offset,
                 zip_file_comment |-> Fill(0, d.comment_len)],
     cde_start_pos |-> U(EocdPos(d))]

\* spec::Zip64CentralDirectoryEndLocator::parse_async at the position
\* get_directory_counts has sought to: InvalidArchive without the locator
\* signature there, the I/O error of a failed read, else the locator.
Zip64Locator_parse(d) ==
    IF d.io = "read_locator" THEN [result |-> "Io", locator |-> NoLocator]
    ELSE IF ~d.locator.present
    THEN [result |-> "InvalidArchive:Invalid zip64 locator digital signature header",
          locator |-> NoLocator]
    ELSE [result |-> "Ok", locator |-> d.locator]

\* spec::Zip64CentralDirectoryEnd::find_and_parse_async: the search
\* forward from nominal_offset up to search_upper_bound for the signature
\* of the ZIP64 end-of-central-directory record; the record and how far
\* behind nominal_offset it was found.
Zip64End_find_and_parse(d, nominal_offset, search_upper_bound) ==
    LET at == U(Zip64EndPos(d))
    IN  IF d.footer64.present /\ Leq(nominal_offset, at)
           /\ Leq(at, search_upper_bound)
        THEN [result |-> "Ok", footer |-> d.footer64,
              archive_offset |-> checked_sub(at, nominal_offset)]
        ELSE [result |-> "InvalidArchive:Could not find ZIP64 central directory end",
              footer |-> NoZip64End, archive_offset |-> << >>]

\* What get_directory_counts returns.
Counts(result, archive_offset, directory_start, number_of_files) ==
    [result |-> result, archive_offset |-> archive_offset,
     directory_start |-> directory_start, number_of_files |-> number_of_files]

\* `match zip64locator { None => .. }`: the archive offset from the
\* position the end-of-central-directory record was found at.  The sum
\* directory_start is formed with `+`.
counts_without_zip64(footer, cde_start_pos) ==
    LET partial == checked_sub(cde_start_pos, footer.central_directory_size)
        archive_offset == IF partial = << >> THEN << >>
                          ELSE checked_sub(partial,
                                           footer.central_directory_offset)
    IN  IF archive_offset = << >>
        THEN Counts("InvalidArchive:Invalid central directory size or offset",
                    << >>, << >>, 0)
        ELSE IF checked_add(footer.central_directory_offset, archive_offset)
                  = << >>
        THEN Counts("Panic:overflow", << >>, << >>, 0)
        ELSE Counts("Ok", archive_offset,
                    checked_add(footer.central_directory_offset, archive_offset),
                    footer.number_of_files_on_this_disk)

\* `match zip64locator { Some(locator64) => .. }`.
counts_with_zip64(d, footer, cde_start_pos, locator64) ==
    LET search_upper_bound == checked_sub(cde_start_pos, U(60))
        found == Zip64End_find_and_parse(
                     d, locator64.end_of_central_directory_offset,
                     search_upper_bound)
        directory_start == checked_add(found.footer.central_directory_offset,
                                       found.archive_offset)
    IN  IF ~footer.record_too_small
           /\ footer.disk_number # locator64.disk_with_central_directory
        THEN Counts("UnsupportedArchive:Support for multi-disk files is not implemented",
                    << >>, << >>, 0)
        ELSE IF search_upper_bound = << >>
        THEN Counts("InvalidArchive:File cannot contain ZIP64 central directory end",
                    << >>, << >>, 0)
        ELSE IF found.result # "Ok" THEN Counts(found.result, << >>, << >>, 0)
        ELSE IF found.footer.disk_number
                  # found.footer.disk_with_central_directory
        THEN Counts("UnsupportedArchive:Support for multi-disk files is not implemented",
                    << >>, << >>, 0)
        ELSE IF directory_start = << >>
        THEN Counts("InvalidArchive:Invalid central directory size or offset",
                    << >>, << >>, 0)
        ELSE Counts("Ok", found.archive_offset, directory_start,
                    found.footer.number_of_files)

\* Faulty variant of get_directory_counts: the archive offset is taken to
\* be 0.
get_directory_counts_unshifted(d, footer, cde_start_pos) ==
    Counts("Ok", U(0), footer.central_directory_offset,
           footer.number_of_files_on_this_disk)

\* Faulty variant of get_directory_counts: a locator that cannot be parsed
\* for any reason is an error.
get_directory_counts_locator_required(d, footer, cde_start_pos) ==
    LET seek_ok == /\ d.io # "seek_locator"
                   /\ FileLen(d) >= 20 + 22 + Len(footer.zip_file_comment)
        loc == Zip64Locator_parse(d)
    IN  IF seek_ok /\ loc.result # "Ok"
        THEN Counts(loc.result, << >>, << >>, 0)
        ELSE IF seek_ok
        THEN counts_with_zip64(d, footer, cde_start_pos, loc.locator)
        ELSE counts_without_zip64(footer, cde_start_pos)

\* Faulty variant of get_directory_counts: the archive offset is formed
\* with `-`.
get_directory_counts_unchecked(d, footer, cde_start_pos) ==
    LET seek_ok == /\ d.io # "seek_locator"
                   /\ FileLen(d) >= 20 + 22 + Len(footer.zip_file_comment)
        loc == Zip64Locator_parse(d)
        plain == counts_without_zip64(footer, cde_start_pos)
    IN  IF seek_ok /\ loc.result \notin { "Ok", "InvalidArchive:Invalid zip64 locator digital signature header" }
        THEN Counts(loc.result, << >>, << >>, 0)
        ELSE IF seek_ok /\ loc.result = "Ok"
        THEN counts_with_zip64(d, footer, cde_start_pos, loc.locator)
        ELSE IF plain.result = "Ok" THEN plain
        ELSE Counts("Panic:overflow", << >>, << >>, 0)

\* ZipArchive::get_directory_counts.  The seek to the locator fails when
\* the file is shorter than 20 + 22 + the comment, or with an I/O error of
\* the source; a failed seek and an InvalidArchive of the locator parse
\* both give None.
get_directory_counts(d, footer, cde_start_pos) ==
    LET seek_ok == /\ d.io # "seek_locator"
                   /\ FileLen(d) >= 20 + 22 + Len(footer.zip_file_comment)
        loc == Zip64Locator_parse(d)
    IN  IF seek_ok /\ loc.result \notin { "Ok", "InvalidArchive:Invalid zip64 locator digital signature header" }
        THEN Counts(loc.result, << >>, << >>, 0)
        ELSE IF seek_ok /\ loc.result = "Ok"
        THEN counts_with_zip64(d, footer, cde_start_pos, loc.locator)
        ELSE counts_without_zip64(footer, cde_start_pos)

\* The ZipFileData central_header_to_zip_file_inner constructs from record
\* i before it parses the extra field.
ZipFileData(d, i, central_header_start) ==
    [compression_method |-> from_u16(d.recs[i].compression_method),
     compressed_size |-> d.recs[i].compressed_size,
     uncompressed_size |-> d.recs[i].uncompressed_size,
     file_name |-> d.recs[i].file_name,
     extra_field |-> d.recs[i].extra_field,
     header_start |-> RawOffset(d, i),
     central_header_start |-> central_header_start,
     data_start |-> 0,
     large_file |-> FALSE,
     aes_mode |-> << >>]

\* Faulty variant of header_finish: the I/O error of the scan is returned.
header_finish_strict(file, scan_err, archive_offset) ==
    IF scan_err # "none" THEN [result |-> scan_err, file |-> file]
    ELSE IF file.compression_method = "AES" /\ file.aes_mode = << >>
    THEN [result |-> "InvalidArchive:AES encryption without AES extra data field",
          file |-> file]
    ELSE IF checked_add(file.header_start, archive_offset) = << >>
    THEN [result |-> "InvalidArchive:Archive header is too large", file |-> file]
    ELSE [result |-> "Ok",
          file |-> [file EXCEPT
                      !.header_start = checked_add(@, archive_offset)]]

\* central_header_to_zip_file_inner after parse_extra_field has returned
\* scan_err ("none": Ok): the match on its result, the AES check, the shift
\* of header_start.
header_finish(file, scan_err, archive_offset) ==
    IF scan_err \notin { "none", "Io" } THEN [result |-> scan_err, file |-> file]
    ELSE IF file.compression_method = "AES" /\ file.aes_mode = << >>
    THEN [result |-> "InvalidArchive:AES encryption without AES extra data field",
          file |-> file]
    ELSE IF checked_add(file.header_start, archive_offset) = << >>
    THEN [result |-> "InvalidArchive:Archive header is too large", file |-> file]
    ELSE [result |-> "Ok",
          file |-> [file EXCEPT
                      !.header_start = checked_add(@, archive_offset)]]

NoCounts == Counts("none", << >>, << >>, 0)
NoFooter == [footer |-> << >>, cde_start_pos |-> << >>]
NoRecord == [start |-> -1, kind |-> 0, len |-> 0, err |-> "none",
             before |-> << >>, consumed |-> {}]

\* ------------------------------------- find_content on 64-bit positions
\* u64 `+` when the sum leaves the range in a build without overflow
\* checks: the sum modulo 2^64.
wrapping_add(a, b) ==
    LET s1 == a[1] + b[1]
        s2 == a[2] + b[2] + s1 \div 65536
        s3 == a[3] + b[3] + s2 \div 65536
        s4 == a[4] + b[4] + s3 \div 65536
    IN  << s1 % 65536, s2 % 65536, s3 % 65536, s4 % 65536 >>

\* How the crate was built: with overflow checks (`+` panics when the sum
\* leaves the range) or without (`+` wraps).
Builds == { "overflow-checks", "wrapping" }

\* 2^64 - n, for 0 < n <= 65536.
MaxU64Less(n) == << 65536 - n, 65535, 65535, 65535 >>

\* The 64-bit header_start values of central records, before the shift:
\* small ones, values of ZIP64 records up to the largest.
RawStarts ==
    { U(40), Wide1, << 0, 0, 0, 32768 >>,
      << 65535, 65534, 65535, 65535 >>,
      MaxU64Less(40), MaxU64Less(35), MaxU64Less(33), MaxU64Less(3), MaxU64 }

\* The header_start values directory parsing accepts: the shift by the
\* archive offset is a checked_add.
AcceptedStarts ==
    { checked_add(raw, U(k)) : raw \in RawStarts, k \in Prefixes } \ { << >> }

\* The fixed part of a local header: signature, 22 bytes, the two lengths.
LocalHead(signature, file_name_length, extra_field_length) ==
    le32(signature) \o Fill(0, 22) \o le16(file_name_length)
        \o le16(extra_field_length)

\* How many bytes a source can hold from position p on: its positions are
\* 64-bit values, and the position behind its last byte is one too.
Room(p) ==
    IF p[2] = 65535 /\ p[3] = 65535 /\ p[4] = 65535 THEN 65535 - p[1]
    ELSE 65535

\* The sources find_content is called on: any AsyncRead + AsyncSeek whose
\* readable bytes start at `at`; here a local header, whole or cut, as far
\* as it fits below 2^64.
WideSources(header_start) ==
    { [at |-> header_start,
       bytes |-> SubSeq(LocalHead(sig, n, m), 1,
                        IF cut <= Room(header_start) THEN cut
                        ELSE Room(header_start))] :
        sig \in { LOCAL_FILE_HEADER_SIGNATURE, 0 },
        n \in { 1, 9, 65535 }, m \in { 0, 4, 65535 },
        cut \in { 3, 28, 30 } }

\* a + b + c + d on u64 values: << >> when a partial sum leaves the range.
Sum4(a, b, c, d) ==
    LET ab == checked_add(a, b)
        abc == IF ab = << >> THEN << >> ELSE checked_add(ab, c)
    IN  IF abc = << >> THEN << >> ELSE checked_add(abc, d)

\* What find_content ends with on 64-bit positions: its result, whether it
\* has stored data_start, and the value.
Found64(result, stored, data_start) ==
    [result |-> result, stored |-> stored, data_start |-> data_start]

\* find_content with header_start, the stream position and data_start as
\* the 64-bit values they are.  A read where the source has no bytes is an
\* I/O error, so is a relative seek that leaves the range; data_start is
\* formed with `+`.
find_content_u64(header_start, src, build) ==
    LET rel == IF checked_sub(header_start, src.at) = << >> THEN -1
               ELSE Index(checked_sub(header_start, src.at))
        bytes == src.bytes
    IN  IF rel < 0 \/ rel + 4 > Len(bytes) THEN Found64("Io", FALSE, << >>)
        ELSE IF read_u32_le(bytes, rel) # LOCAL_FILE_HEADER_SIGNATURE
        THEN Found64("InvalidArchive:Invalid local file header", FALSE, << >>)
        ELSE IF checked_add(header_start, U(26)) = << >>
        THEN Found64("Io", FALSE, << >>)
        ELSE IF rel + 30 > Len(bytes) THEN Found64("Io", FALSE, << >>)
        ELSE LET file_name_length == U(read_u16_le(bytes, rel + 26))
                 extra_field_length == U(read_u16_le(bytes, rel + 28))
                 exact == Sum4(header_start, U(magic_and_header),
                               file_name_length, extra_field_length)
                 wrapped == wrapping_add(
                                wrapping_add(
                                    wrapping_add(header_start,
                                                 U(magic_and_header)),
                                    file_name_length),
                                extra_field_length)
             IN  IF exact # << >> THEN Found64("Ok", TRUE, exact)
                 ELSE IF build = "overflow-checks"
                 THEN Found64("Panic:overflow", FALSE, << >>)
                 ELSE Found64("Ok", TRUE, wrapped)

NoWide ==
    [header_start |-> U(0), src |-> [at |-> U(0), bytes |-> << >>],
     build |-> "none", found |-> Found64("none", FALSE, << >>)]

\* No find_content on 64-bit positions is under way.
WideIdle == wide = NoWide

\* No source is under a ZipArchive::new that parses bytes.
ParseIdle ==
    /\ disk = Disk(0, << >>)
    /\ npc = "idle"
    /\ cde = NoFooter
    /\ counts = NoCounts
    /\ stream_pos = << >>
    /\ parsed = << >>
    /\ file_data = << >>
    /\ xcur = 0
    /\ xlast = NoRecord
    /\ hres = "none"
    /\ nres = "none"

Init ==
    /\ \E c \in Archives : ArchiveInit(c)
    /\ OpenIdle
    /\ ParseIdle
    /\ WideIdle

\* The caller holds the archive handle and no call on it is in progress:
\* by_index, by_name, entries_stream and extract take Pin<&mut Self>.  A
\* panic unwinds the caller, which makes no further call.
ArchiveFree ==
    /\ arch = "open"
    /\ res.result \notin Panics
    /\ fut = NoFut
    /\ ~strm.alive
    /\ fgpc \in { "idle", "returned" }

\* ------------------------------------------------------ archive actions

\* ZipArchive::new: parse the directory, install the source in the slot.
New ==
    /\ arch = "unopened"
    /\ LET r == new_loop(cd, << >>)
       IN  /\ arch' = IF r.result = "Ok" THEN "open" ELSE "failed"
           /\ files' = r.files
           /\ reader' = (r.result = "Ok")
           /\ res' = Call("new", -1, r.result)
    /\ UNCHANGED << byteVars, cd, cancelled, live, fut, strm, faults, exVars >>

\* Faulty variant of by_index: the source is taken out of the slot before
\* the lookup, and dropped when the lookup misses.
by_index_take_first(index, via, op) ==
    IF ~reader
    THEN /\ res' = Call(op, index, "Panic:unwrap")
         /\ strm' = IF via = "stream" THEN [strm EXCEPT !.ended = TRUE] ELSE strm
         /\ UNCHANGED << reader, fut >>
    ELSE IF index >= Len(files)
    THEN /\ res' = Call(op, index, "FileNotFound")
         /\ reader' = FALSE
         /\ UNCHANGED << strm, fut >>
    ELSE /\ reader' = FALSE
         /\ fut' = [index |-> index, via |-> via]
         /\ res' = Call(op, index, "Pending")
         /\ UNCHANGED strm

\* ZipArchive::by_index up to its first suspension point: the lookup, then
\* reader.lock().take().unwrap(), then the call of get_reader.
by_index(index, via, op) ==
    IF index >= Len(files)
    THEN /\ res' = Call(op, index, "FileNotFound")
         /\ strm' = IF via = "stream" THEN [strm EXCEPT !.ended = TRUE] ELSE strm
         /\ UNCHANGED << reader, fut >>
    ELSE IF ~reader
    THEN /\ res' = Call(op, index, "Panic:unwrap")
         /\ strm' = IF via = "stream" THEN [strm EXCEPT !.ended = TRUE] ELSE strm
         /\ UNCHANGED << reader, fut >>
    ELSE /\ reader' = FALSE
         /\ fut' = [index |-> index, via |-> via]
         /\ res' = Call(op, index, "Pending")
         /\ UNCHANGED strm

OpenByIndex ==
    /\ ArchiveFree
    /\ \E index \in 0..MaxEntries : by_index(index, "caller", "by_index")
    /\ UNCHANGED << byteVars, cd, cancelled, arch, files, live, faults, exVars >>

\* ZipArchive::by_name: get_index_of, then by_index.
OpenByName ==
    /\ ArchiveFree
    /\ \E name \in LookupNames :
         LET index == get_index_of(files, name)
         IN  IF index = -1
             THEN /\ res' = Call("by_name", -1, "FileNotFound")
                  /\ UNCHANGED << reader, fut, strm >>
             ELSE by_index(index, "caller", "by_name")
    /\ UNCHANGED << byteVars, cd, cancelled, arch, files, live, faults, exVars >>

\* The by_index future runs from its suspension in get_reader to its end:
\* Ok builds the ZipFile around the source; an error or a panic drops the
\* source with the future's locals.
OpenFinish ==
    /\ fut # NoFut
    /\ \E io \in IoChoices :
         LET r == get_reader(files[fut.index + 1], io)
         IN  /\ io # "none" => r = "Io"
             /\ faults' = IF io = "none" THEN faults ELSE faults - 1
             /\ live' = IF r = "Ok"
                        THEN live \cup { [index |-> fut.index, pos |-> 0,
                                          owner |-> "caller"] }
                        ELSE live
             /\ res' = [res EXCEPT !.result = r]
             /\ strm' = IF fut.via # "stream" THEN strm
                        ELSE IF r = "Ok" THEN [strm EXCEPT !.i = @ + 1]
                        ELSE [strm EXCEPT !.ended = TRUE]
    /\ fut' = NoFut
    /\ UNCHANGED << byteVars, cd, cancelled, arch, files, reader, exVars >>

\* The caller drops the by_index / by_name future at a suspension point of
\* find_content: the future owns the source and drops it.
OpenCancel ==
    /\ fut # NoFut
    /\ fut.via = "caller"
    /\ fut' = NoFut
    /\ res' = [res EXCEPT !.result = "Cancelled"]
    /\ cancelled' = TRUE
    /\ UNCHANGED << byteVars, cd, arch, files, reader, live, strm, faults, exVars >>

\* AsyncRead::poll_read on a ZipFile of the caller: n more bytes.
Read ==
    /\ res.result \notin Panics
    /\ \E f \in live : \E n \in 1..Len(files[f.index + 1].content) :
         /\ f.owner = "caller"
         /\ f.pos + n <= Len(files[f.index + 1].content)
         /\ live' = (live \ { f }) \cup { [f EXCEPT !.pos = @ + n] }
    /\ UNCHANGED << byteVars, cd, cancelled, arch, files, reader, fut, strm, res, faults, exVars >>

\* Drop for ZipFile: the wrapped reader is unwrapped down to the source,
\* which is stored in the slot.
DropZipFile ==
    /\ \E f \in live :
         /\ f.owner = "caller"
         /\ live' = live \ { f }
    /\ reader' = TRUE
    /\ UNCHANGED << byteVars, cd, cancelled, arch, files, fut, strm, res, faults, exVars >>

\* ZipArchive::into_inner: reader.lock().take().unwrap().
IntoInner ==
    /\ ArchiveFree
    /\ arch' = "consumed"
    /\ reader' = FALSE
    /\ res' = Call("into_inner", -1,
                    IF reader THEN "Ok" ELSE "Panic:unwrap")
    /\ UNCHANGED << byteVars, cd, cancelled, files, live, fut, strm, faults, exVars >>

\* ZipArchive::entries_stream: the generator, not yet polled.
EntriesStream ==
    /\ ArchiveFree
    /\ strm' = [alive |-> TRUE, i |-> 0, ended |-> FALSE]
    /\ res' = Call("entries_stream", -1, "Ok")
    /\ UNCHANGED << byteVars, cd, cancelled, arch, files, reader, live, fut, faults, exVars >>

\* The caller draws the next item: the loop `for i in 0..s.len()` with the
\* by_index call of its body, or the end of the stream.
StreamNext ==
    /\ strm.alive
    /\ ~strm.ended
    /\ fut = NoFut
    /\ IF strm.i >= Len(files)
       THEN /\ strm' = [strm EXCEPT !.ended = TRUE]
            /\ res' = Call("stream_next", -1, "None")
            /\ UNCHANGED << reader, fut >>
       ELSE by_index(strm.i, "stream", "stream_next")
    /\ UNCHANGED << byteVars, cd, cancelled, arch, files, live, faults, exVars >>

\* The caller drops the stream, with the by_index future it may be
\* suspended in.
StreamDrop ==
    /\ strm.alive
    /\ strm' = NoStream
    /\ fut' = NoFut
    /\ cancelled' = (cancelled \/ fut # NoFut)
    /\ UNCHANGED << byteVars, cd, arch, files, reader, live, res, faults, exVars >>

\* --------------------------------------------------- extract, foreground

\* Faulty variant of ZipFile::name: the raw file name is taken as the path.
ZipFile_name_unchecked(data) ==
    [result |-> "Ok", path |-> data.file_name]

\* ZipFile::name: the enclosed name, or InvalidArchive("Invalid file path").
ZipFile_name(data) ==
    LET e == enclosed_name(data.file_name)
    IN  IF e = << >>
        THEN [result |-> "InvalidArchive:Invalid file path", path |-> << >>]
        ELSE [result |-> "Ok", path |-> e]

\* `name`, the local of the loop body of extract.
FgName == ZipFile_name(files[fgIdx + 1]).path

\* extract returns (or unwinds) with `result`: its locals are dropped, the
\* sender with them; the ZipFile of the iteration, if any, stores the
\* source in the slot (`slot` is the slot afterwards); the JoinHandle is
\* dropped, which detaches dirs_task.
FgReturn(result, slot) ==
    /\ fgpc' = "returned"
    /\ res' = [res EXCEPT !.result = result]
    /\ tx' = FALSE
    /\ live' = { f \in live : f.owner # "extract" }
    /\ reader' = slot

\* ZipArchive::extract up to the loop: a new registry, a new channel, the
\* spawn of a new dirs_task, the entries stream.  The caller calls it on
\* an archive it has not extracted yet, or again, on the same root, right
\* after an extract that returned Ok (whose dirs_task has ended).
ExtractStart ==
    /\ ArchiveFree
    /\ \/ fgpc = "idle"
       \/ res.op = "extract" /\ res.result = "Ok" /\ bgpc = "done"
    /\ fgpc' = "next"
    /\ fgIdx' = 0
    /\ fgDirs' = << >>
    /\ fgK' = 1
    /\ paths' = {}
    /\ chan' = << >>
    /\ tx' = TRUE
    /\ rx' = TRUE
    /\ bgpc' = "recv"
    /\ bgBatch' = << >>
    /\ bgK' = 1
    /\ bgRes' = "none"
    /\ enq' = {}
    /\ starved' = FALSE
    /\ res' = Call("extract", -1, "Pending")
    /\ UNCHANGED << byteVars, cd, cancelled, arch, files, reader, live, fut, strm, faults,
                    fsVars >>

\* entries.try_next().await?: the stream ends (then mem::drop(tx)), or
\* by_index opens entry fgIdx; then file.name()?.
FgNext ==
    /\ fgpc = "next"
    /\ IF fgIdx >= Len(files)
       THEN /\ fgpc' = "join"
            /\ tx' = FALSE
            /\ starved' = (bgpc = "recv" /\ Len(chan) = Cardinality(enq))
            /\ UNCHANGED << res, live, reader, faults >>
       ELSE IF ~reader
       THEN /\ FgReturn("Panic:unwrap", FALSE)
            /\ UNCHANGED << faults, starved >>
       ELSE \E io \in IoChoices :
              LET r == get_reader(files[fgIdx + 1], io)
              IN  /\ io # "none" => r = "Io"
                  /\ faults' = IF io = "none" THEN faults ELSE faults - 1
                  /\ UNCHANGED starved
                  /\ IF r # "Ok"
                     THEN FgReturn(r, FALSE)
                     ELSE IF ZipFile_name(files[fgIdx + 1]).result # "Ok"
                     THEN FgReturn(ZipFile_name(files[fgIdx + 1]).result, TRUE)
                     ELSE /\ fgpc' = "needed"
                          /\ live' = live \cup { [index |-> fgIdx, pos |-> 0,
                                                  owner |-> "extract"] }
                          /\ reader' = FALSE
                          /\ UNCHANGED << res, tx >>
    /\ UNCHANGED << byteVars, cd, cancelled, arch, files, fut, strm, fgIdx, fgDirs, fgK, bgVars,
                    chan, rx, paths, fsVars, enq >>

\* paths.read().await.new_containing_dirs_needed(&name), and the send of a
\* non-empty list: tx.send(new_dirs).expect(..).
FgEnqueue ==
    /\ fgpc = "needed"
    /\ LET new_dirs == new_containing_dirs_needed(paths, FgName)
       IN  IF new_dirs = << >>
           THEN /\ fgpc' = "create"
                /\ UNCHANGED << res, tx, live, reader, chan, enq >>
           ELSE IF rx
           THEN /\ fgpc' = "create"
                /\ chan' = Append(chan, new_dirs)
                /\ enq' = enq \cup { [index |-> fgIdx, dirs |-> new_dirs] }
                /\ UNCHANGED << res, tx, live, reader >>
           ELSE /\ FgReturn("Panic:expect", TRUE)
                /\ UNCHANGED << chan, enq >>
    /\ UNCHANGED << byteVars, cd, cancelled, arch, files, fut, strm, faults, fgIdx, fgDirs, fgK,
                    bgVars, rx, paths, fsVars, starved >>

\* Faulty variant of FgCreate: every failure of the creation starts the
\* fallback.
FgCreate_any_error ==
    /\ fgpc = "create"
    /\ \E fault \in FaultChoices :
         LET c == file_create(fsDirs, fsFiles, FgName, fault)
         IN  /\ fault => c = "Other"
             /\ faults' = IF fault THEN faults - 1 ELSE faults
             /\ IF c = "Ok"
                THEN /\ fgpc' = "copy"
                     /\ fsFiles' = FilesAfterCreate(fsFiles, FgName, << >>)
                ELSE /\ fgpc' = "fb_needed"
                     /\ UNCHANGED fsFiles
             /\ UNCHANGED << res, tx, live, reader >>
    /\ UNCHANGED << byteVars, cd, cancelled, arch, files, fut, strm, fgIdx, fgDirs, fgK, bgVars,
                    chan, rx, paths, fsDirs, enq, starved >>

\* extract_single: fs::File::create(&target).await and its three arms.
FgCreate ==
    /\ fgpc = "create"
    /\ \E fault \in FaultChoices :
         LET c == file_create(fsDirs, fsFiles, FgName, fault)
         IN  /\ fault => c = "Other"
             /\ faults' = IF fault THEN faults - 1 ELSE faults
             /\ IF c = "Ok"
                THEN /\ fgpc' = "copy"
                     /\ fsFiles' = FilesAfterCreate(fsFiles, FgName, << >>)
                     /\ UNCHANGED << res, tx, live, reader >>
                ELSE IF c = "NotFound"
                THEN /\ fgpc' = "fb_needed"
                     /\ UNCHANGED << res, tx, live, reader, fsFiles >>
                ELSE /\ FgReturn("Io", TRUE)
                     /\ UNCHANGED fsFiles
    /\ UNCHANGED << byteVars, cd, cancelled, arch, files, fut, strm, fgIdx, fgDirs, fgK, bgVars,
                    chan, rx, paths, fsDirs, enq, starved >>

\* The fallback: paths.read().await.new_containing_dirs_needed(name).
FgFallbackNeeded ==
    /\ fgpc = "fb_needed"
    /\ fgDirs' = new_containing_dirs_needed(paths, FgName)
    /\ fgK' = 1
    /\ fgpc' = IF fgDirs' = << >> THEN "fb_write" ELSE "fb_mkdir"
    /\ UNCHANGED << byteVars, archVars, fgIdx, bgVars, chanVars, paths, fsVars, enq, starved >>

\* The fallback: create_dir_idempotent(&full_dir).await? for one dir.
FgFallbackMkdir ==
    /\ fgpc = "fb_mkdir"
    /\ \E fault \in FaultChoices :
         LET m == create_dir_idempotent(fsDirs, fsFiles, fgDirs[fgK], fault)
         IN  /\ faults' = IF fault THEN faults - 1 ELSE faults
             /\ IF m = "Ok"
                THEN /\ fsDirs' = DirsAfterMkdir(fsDirs, fsFiles, fgDirs[fgK])
                     /\ fgK' = fgK + 1
                     /\ fgpc' = IF fgK = Len(fgDirs) THEN "fb_write"
                                ELSE "fb_mkdir"
                     /\ UNCHANGED << res, tx, live, reader >>
                ELSE /\ FgReturn("Io", TRUE)
                     /\ UNCHANGED << fsDirs, fgK >>
    /\ UNCHANGED << byteVars, cd, cancelled, arch, files, fut, strm, fgIdx, fgDirs, bgVars, chan,
                    rx, paths, fsFiles, enq, starved >>

\* The fallback: paths.write().await.write_dirs(new_dirs).
FgFallbackWrite ==
    /\ fgpc = "fb_write"
    /\ paths' = write_dirs(paths, fgDirs)
    /\ fgpc' = "retry"
    /\ UNCHANGED << byteVars, archVars, fgIdx, fgDirs, fgK, bgVars, chanVars, fsVars,
                    enq, starved >>

\* The fallback: fs::File::create(&target).await?, the one retry.
FgRetryCreate ==
    /\ fgpc = "retry"
    /\ \E fault \in FaultChoices :
         LET c == file_create(fsDirs, fsFiles, FgName, fault)
         IN  /\ fault => c = "Other"
             /\ faults' = IF fault THEN faults - 1 ELSE faults
             /\ IF c = "Ok"
                THEN /\ fgpc' = "copy"
                     /\ fsFiles' = FilesAfterCreate(fsFiles, FgName, << >>)
                     /\ UNCHANGED << res, tx, live, reader >>
                ELSE /\ FgReturn("Io", TRUE)
                     /\ UNCHANGED fsFiles
    /\ UNCHANGED << byteVars, cd, cancelled, arch, files, fut, strm, fgIdx, fgDirs, fgK, bgVars,
                    chan, rx, paths, fsDirs, enq, starved >>

\* io::copy(&mut self.as_mut(), &mut outfile).await?, and the end of the
\* loop body, where `file` is dropped.
FgCopy ==
    /\ fgpc = "copy"
    /\ \E fault \in FaultChoices :
         /\ faults' = IF fault THEN faults - 1 ELSE faults
         /\ IF fault
            THEN /\ FgReturn("Io", TRUE)
                 /\ UNCHANGED << fsFiles, fgIdx >>
            ELSE /\ fsFiles' = FilesAfterCreate(fsFiles, FgName,
                                                files[fgIdx + 1].content)
                 /\ live' = { f \in live : f.owner # "extract" }
                 /\ reader' = TRUE
                 /\ fgIdx' = fgIdx + 1
                 /\ fgpc' = "next"
                 /\ UNCHANGED << res, tx >>
    /\ UNCHANGED << byteVars, cd, cancelled, arch, files, fut, strm, fgDirs, fgK, bgVars, chan,
                    rx, paths, fsDirs, enq, starved >>

\* Faulty variant of the join: extract returns without awaiting dirs_task.
FgJoin_detached ==
    /\ fgpc = "join"
    /\ fgpc' = "returned"
    /\ res' = [res EXCEPT !.result = IF bgpc = "done" THEN bgRes ELSE "Ok"]
    /\ UNCHANGED << byteVars, cd, cancelled, arch, files, reader, live, fut, strm,
                    faults, fgIdx, fgDirs, fgK, bgVars, chanVars, paths,
                    fsVars, enq, starved >>

\* dirs_task.await.expect("panic in subtask")?; Ok(()).
FgJoin ==
    /\ fgpc = "join"
    /\ bgpc = "done"
    /\ fgpc' = "returned"
    /\ res' = [res EXCEPT !.result = bgRes]
    /\ UNCHANGED << byteVars, cd, cancelled, arch, files, reader, live, fut, strm, faults, fgIdx,
                    fgDirs, fgK, bgVars, chanVars, paths, fsVars, enq, starved >>

\* --------------------------------------------------- extract, dirs_task

\* rx.next().await: a batch, or None once the sender is gone and the
\* channel is empty; then Ok(()).
BgRecv ==
    /\ bgpc = "recv"
    /\ IF chan # << >>
       THEN /\ bgBatch' = Head(chan)
            /\ chan' = Tail(chan)
            /\ bgK' = 1
            /\ bgpc' = "mkdir"
            /\ UNCHANGED << bgRes, rx >>
       ELSE /\ ~tx
            /\ bgpc' = "done"
            /\ bgRes' = "Ok"
            /\ rx' = FALSE
            /\ UNCHANGED << bgBatch, bgK, chan >>
    /\ UNCHANGED << byteVars, archVars, fgVars, tx, paths, fsVars, enq, starved >>

\* Faulty variant of BgMkdir: the result of create_dir_idempotent is
\* dropped, the task goes on to the next dir and to the registry write.
BgMkdir_unchecked ==
    /\ bgpc = "mkdir"
    /\ \E fault \in FaultChoices :
         LET m == create_dir_idempotent(fsDirs, fsFiles, bgBatch[bgK], fault)
         IN  /\ faults' = IF fault THEN faults - 1 ELSE faults
             /\ fsDirs' = IF m = "Ok"
                          THEN DirsAfterMkdir(fsDirs, fsFiles, bgBatch[bgK])
                          ELSE fsDirs
             /\ bgK' = bgK + 1
             /\ bgpc' = IF bgK = Len(bgBatch) THEN "write" ELSE "mkdir"
             /\ UNCHANGED << bgRes, rx, chan >>
    /\ UNCHANGED << byteVars, cd, cancelled, arch, files, reader, live, fut, strm, res, fgVars,
                    bgBatch, tx, paths, fsFiles, enq, starved >>

\* create_dir_idempotent(&full_dir).await? for one dir of the batch; an
\* error ends the task, which drops the receiver.
BgMkdir ==
    /\ bgpc = "mkdir"
    /\ \E fault \in FaultChoices :
         LET m == create_dir_idempotent(fsDirs, fsFiles, bgBatch[bgK], fault)
         IN  /\ faults' = IF fault THEN faults - 1 ELSE faults
             /\ IF m = "Ok"
                THEN /\ fsDirs' = DirsAfterMkdir(fsDirs, fsFiles, bgBatch[bgK])
                     /\ bgK' = bgK + 1
                     /\ bgpc' = IF bgK = Len(bgBatch) THEN "write" ELSE "mkdir"
                     /\ UNCHANGED << bgRes, rx, chan >>
                ELSE /\ bgpc' = "done"
                     /\ bgRes' = m
                     /\ rx' = FALSE
                     /\ chan' = << >>
                     /\ UNCHANGED << fsDirs, bgK >>
    /\ UNCHANGED << byteVars, cd, cancelled, arch, files, reader, live, fut, strm, res, fgVars,
                    bgBatch, tx, paths, fsFiles, enq, starved >>

\* paths2.write().await.write_dirs(new_dirs).
BgWrite ==
    /\ bgpc = "write"
    /\ paths' = write_dirs(paths, bgBatch)
    /\ bgpc' = "recv"
    /\ UNCHANGED << byteVars, archVars, fgVars, bgBatch, bgK, bgRes, chanVars, fsVars,
                    enq, starved >>

\* ------------------------------------------------------- specification
Foreground ==
    \/ FgNext
    \/ FgEnqueue
    \/ FgCreate
    \/ FgFallbackNeeded
    \/ FgFallbackMkdir
    \/ FgFallbackWrite
    \/ FgRetryCreate
    \/ FgCopy
    \/ FgJoin

Background ==
    \/ BgRecv
    \/ BgMkdir
    \/ BgWrite

Next ==
    \/ New
    \/ OpenByIndex
    \/ OpenByName
    \/ OpenFinish
    \/ OpenCancel
    \/ Read
    \/ DropZipFile
    \/ IntoInner
    \/ EntriesStream
    \/ StreamNext
    \/ StreamDrop
    \/ ExtractStart
    \/ Foreground
    \/ Background

Spec == Init /\ [][Next]_vars

\* The tokio scheduler polls every spawned task that can make progress, and
\* the caller awaits the future of extract.
FairSpec == Spec /\ WF_vars(Foreground) /\ WF_vars(Background)
\* ------------------------------------------------ find_content, in steps

\* A source over the bytes of some layout, at position 0, handed to nobody.
OpenInit ==
    /\ ArchiveInit(<< >>)
    /\ \E l \in Layouts :
         /\ lay = l
         /\ image = Image(l)
         /\ datas = Datas(l)
    /\ position = 0
    /\ limiter = NoLimiter
    /\ ores = NoOpen
    /\ obuf = << >>
    /\ ParseIdle
    /\ WideIdle

\* find_content(&data, source).await from the caller, as in the tests: the
\* source is moved into the call, which returns it inside the Limiter or
\* drops it with the error.
FindContent ==
    /\ limiter = NoLimiter
    /\ ores.result \in { "none", "Ok" }
    /\ \E i \in DOMAIN datas, io \in { "none" } \cup IoPointSet :
         LET r == find_content_in(datas[i], [bytes |-> image, pos |-> position], io)
         IN  /\ io # "none" => r.result = "Io"
             /\ datas' = IF r.stored
                         THEN [datas EXCEPT ![i].data_start = r.data_start]
                         ELSE datas
             /\ limiter' = IF r.result = "Ok"
                           THEN [index |-> i, cur_pos |-> r.cur_pos,
                                 limit |-> r.limit, read |-> 0]
                           ELSE NoLimiter
             /\ position' = IF r.result = "Ok" THEN r.cur_pos ELSE position
             /\ ores' = [index |-> i, io |-> io, result |-> r.result,
                         from |-> position, before |-> datas[i].data_start]
    /\ obuf' = << >>
    /\ UNCHANGED << archVars, exVars, parseVars, wideVars, lay, image >>

\* A read of the Limiter into a buffer of n bytes.
LimiterRead ==
    /\ limiter # NoLimiter
    /\ \E n \in 1..limiter.limit :
         LET got == Limiter_read(limiter, image, n)
         IN  /\ got # << >>
             /\ obuf' = obuf \o got
             /\ limiter' = [limiter EXCEPT !.read = @ + Len(got)]
             /\ position' = position + Len(got)
    /\ UNCHANGED << archVars, exVars, parseVars, wideVars, lay, image, datas, ores >>

\* Limiter::into_inner: the caller takes the source back, at the position
\* the last read left it.
LimiterIntoInner ==
    /\ limiter # NoLimiter
    /\ limiter' = NoLimiter
    /\ UNCHANGED << archVars, exVars, parseVars, wideVars, lay, image, position, datas, ores, obuf >>

OpenNext ==
    \/ FindContent
    \/ LimiterRead
    \/ LimiterIntoInner

OpenSpec == OpenInit /\ [][OpenNext]_vars

\* ------------------------------------------------- ZipArchive::new, in steps

\* A source over the bytes of some archive file, handed to ZipArchive::new.
ParseInit ==
    /\ ArchiveInit(<< >>)
    /\ OpenIdle
    /\ WideIdle
    /\ disk \in Disks
    /\ npc = "start"
    /\ cde = NoFooter
    /\ counts = NoCounts
    /\ stream_pos = U(0)
    /\ parsed = << >>
    /\ file_data = << >>
    /\ xcur = 0
    /\ xlast = NoRecord
    /\ hres = "none"
    /\ nres = "Pending"

\* new: find_and_parse_async and the multi-disk check.
NewFooter ==
    /\ npc = "start"
    /\ cde' = find_and_parse(disk)
    /\ IF /\ ~cde'.footer.record_too_small
          /\ cde'.footer.disk_number # cde'.footer.disk_with_central_directory
       THEN /\ npc' = "done"
            /\ nres' = "UnsupportedArchive:Support for multi-disk files is not implemented"
       ELSE /\ npc' = "counts"
            /\ nres' = nres
    /\ UNCHANGED << archVars, exVars, openVars, wideVars, disk, counts, stream_pos,
                    parsed, file_data, xcur, xlast, hres >>

\* new: get_directory_counts and the seek to directory_start.
NewCounts ==
    /\ npc = "counts"
    /\ counts' = get_directory_counts(disk, cde.footer, cde.cde_start_pos)
    /\ IF counts'.result # "Ok"
       THEN /\ npc' = "done"
            /\ nres' = counts'.result
            /\ stream_pos' = stream_pos
       ELSE /\ stream_pos' = counts'.directory_start
            /\ IF counts'.number_of_files = 0
               THEN npc' = "done" /\ nres' = "Ok"
               ELSE npc' = "header" /\ nres' = nres
    /\ UNCHANGED << archVars, exVars, openVars, wideVars, disk, cde, parsed, file_data,
                    xcur, xlast, hres >>

\* central_header_to_zip_file up to the construction of `result`: the
\* signature at the stream position, the fixed part, name, extra field and
\* comment.
CentralHeader ==
    /\ npc = "header"
    /\ LET at == Index(stream_pos)
           i == IF at < 0 THEN 0 ELSE RecordAt(disk, at)
       IN  IF i = 0
           THEN /\ hres' = IF at < 0 \/ at + 4 > FileLen(disk)
                           THEN "Io"
                           ELSE "InvalidArchive:Invalid Central Directory header"
                /\ nres' = hres'
                /\ npc' = "done"
                /\ UNCHANGED << stream_pos, file_data >>
           ELSE /\ file_data' = ZipFileData(disk, i, stream_pos)
                /\ stream_pos' = U(at + RecLen(disk.recs[i]))
                /\ hres' = "Pending"
                /\ npc' = "extra"
                /\ nres' = nres
    /\ xcur' = 0
    /\ xlast' = NoRecord
    /\ UNCHANGED << archVars, exVars, openVars, wideVars, disk, cde, counts, parsed >>

\* One iteration of the loop of parse_extra_field.
ExtraRecord ==
    /\ npc = "extra"
    /\ xcur < Len(file_data.extra_field)
    /\ LET x == file_data.extra_field
           st == extra_record(file_data, xcur)
       IN  /\ file_data' = st.file
           /\ xcur' = st.p
           /\ xlast' = [start |-> xcur,
                        kind |-> IF xcur + 2 > Len(x) THEN -1
                                 ELSE read_u16_le(x, xcur),
                        len |-> IF xcur + 4 > Len(x) THEN -1
                                ELSE read_u16_le(x, xcur + 2),
                        err |-> st.err,
                        before |-> file_data,
                        consumed |-> st.consumed]
           /\ npc' = IF st.err = "none" THEN "extra" ELSE "finish"
    /\ UNCHANGED << archVars, exVars, openVars, wideVars, disk, cde, counts, stream_pos,
                    parsed, hres, nres >>

\* The rest of central_header_to_zip_file_inner once parse_extra_field has
\* returned, and the insert of new.
HeaderFinish ==
    /\ \/ npc = "finish"
       \/ npc = "extra" /\ xcur >= Len(file_data.extra_field)
    /\ LET r == header_finish(file_data, xlast.err, counts.archive_offset)
       IN  /\ hres' = r.result
           /\ file_data' = r.file
           /\ IF r.result # "Ok"
              THEN npc' = "done" /\ nres' = r.result /\ parsed' = parsed
              ELSE IF \E j \in DOMAIN parsed :
                         parsed[j].file_name = r.file.file_name
              THEN npc' = "done" /\ nres' = "Panic:assert" /\ parsed' = parsed
              ELSE /\ parsed' = Append(parsed, r.file)
                   /\ IF Len(parsed') = counts.number_of_files
                      THEN npc' = "done" /\ nres' = "Ok"
                      ELSE npc' = "header" /\ nres' = nres
    /\ UNCHANGED << archVars, exVars, openVars, wideVars, disk, cde, counts, stream_pos,
                    xcur, xlast >>

ParseNext ==
    \/ NewFooter
    \/ NewCounts
    \/ CentralHeader
    \/ ExtraRecord
    \/ HeaderFinish

ParseSpec == ParseInit /\ [][ParseNext]_vars

\* ------------------------------- find_content on 64-bit positions, in steps

\* An entry whose header_start directory parsing has accepted, and a source
\* with a local header at that position.
WideInit ==
    /\ ArchiveInit(<< >>)
    /\ OpenIdle
    /\ ParseIdle
    /\ \E hs \in AcceptedStarts, build \in Builds :
         \E src \in WideSources(hs) :
             wide = [header_start |-> hs, src |-> src, build |-> build,
                     found |-> Found64("none", FALSE, << >>)]

\* find_content(&data, source).await.
WideFindContent ==
    /\ wide.found.result = "none"
    /\ wide.build \in Builds
    /\ wide' = [wide EXCEPT !.found =
                  find_content_u64(wide.header_start, wide.src, wide.build)]
    /\ UNCHANGED << archVars, exVars, openVars, parseVars >>

WideNext == WideFindContent

WideSpec == WideInit /\ [][WideNext]_vars

\* ================================================================ claims

\* The directory holds only entries extract can materialise: an enclosed
\* name, a valid local header, a supported compression method.
CleanArchive ==
    \A k \in DOMAIN files :
        /\ enclosed_name(files[k].file_name) # << >>
        /\ files[k].signature = LOCAL_FILE_HEADER_SIGNATURE
        /\ files[k].compression_method \in { "Stored", "Deflated" }

\* No I/O fault has been injected so far.
NoFault == faults = MaxFaults

\* The call is one of the operations that open an entry.
OpenCall == res.op \in { "by_index", "by_name", "stream_next" }

\* C1: after open(), between calls of the entry API, the source is either in
\* the slot or owned by exactly one live entry reader (never both, never
\* neither).
C1_OneHolder ==
    (arch = "open" /\ fut = NoFut /\ fgpc = "idle")
        => \/ reader /\ live = {}
           \/ ~reader /\ Cardinality(live) = 1

\* C2: once no entry reader is alive, after by_index / by_name calls and
\* reader drops only (no cancelled future, no injected I/O fault),
\* into_inner() succeeds and returns the source.
C2_SourceReclaim ==
    (res.op = "into_inner" /\ ~res.busy /\ ~cancelled /\ NoFault
        /\ fgpc = "idle")
        => res.result = "Ok"

\* C3: after a by_index / by_name whose future was dropped at a suspension
\* point, or which failed with an error, the source is in the slot or owned
\* by a live entry reader.
C3_SourceNotLost ==
    (res.op \in { "by_index", "by_name" }
        /\ res.result \in ZipError \cup { "Cancelled" })
        => (reader \/ live # {})

\* C4: an open of an existing entry attempted while another entry reader is
\* alive returns an error to the caller, and the outstanding reader and the
\* empty slot are left as they were.
C4_SecondOpenReportsError ==
    (OpenCall /\ res.busy /\ res.index >= 0 /\ res.index < Len(files))
        => /\ res.result \in ZipError
           /\ ~res.slot
\* Every entry's file exists under root with the entry's bytes.
AllExtracted ==
    \A k \in DOMAIN files :
        /\ files[k].file_name \in DOMAIN fsFiles
        /\ fsFiles[files[k].file_name] = files[k].content

\* C5: for an archive of files with safe names, a source in the slot and a
\* filesystem that fails only with not-found for a missing parent, once the
\* foreground loop is through (whatever dirs_task has done by then) every
\* entry's file exists with its bytes, and extract returns Ok.
C5_ExtractCorrect ==
    (res.op = "extract" /\ res.slot /\ CleanArchive /\ NoFault
        /\ fgpc \in { "join", "returned" })
        => /\ AllExtracted
           /\ fgpc = "returned" => res.result = "Ok"

\* C5 witness: extract of two entries has returned Ok, with directory
\* batches sent, none of which dirs_task had received when the foreground
\* loop ended.
C5_Witness ==
    /\ res.op = "extract" /\ res.slot /\ CleanArchive /\ NoFault
    /\ fgpc = "returned" /\ res.result = "Ok"
    /\ Len(files) >= 2 /\ enq # {} /\ starved
    /\ AllExtracted

\* C6: when dirs_task has failed on a mkdir, extract returns an error value
\* to its caller.
C6_ErrorSurfaces ==
    (res.op = "extract" /\ fgpc = "returned" /\ CleanArchive
        /\ bgpc = "done" /\ bgRes \in ZipError)
        => res.result \in ZipError

\* Every directory of every batch sent is created and registered.
AllBatchesProcessed ==
    \A b \in enq : \A k \in DOMAIN b.dirs :
        b.dirs[k] \in paths /\ b.dirs[k] \in fsDirs

\* C7: the foreground drops the sender when its loop ends; an Ok return of
\* extract comes after dirs_task has drained the channel, processed every
\* batch and returned; and, under fair scheduling and with no I/O fault,
\* the end of the foreground loop leads to that return.
C7_ExtractTerminates ==
    /\ [](fgpc = "join" => ~tx)
    /\ []((res.op = "extract" /\ fgpc = "returned" /\ res.result = "Ok")
            => (bgpc = "done" /\ bgRes = "Ok" /\ chan = << >>
                /\ AllBatchesProcessed))
    /\ (fgpc = "join" /\ NoFault)
         ~> (fgpc = "returned" /\ bgpc = "done"
             /\ (NoFault => (res.result = "Ok" /\ AllBatchesProcessed)))

\* C7 witness: extract has returned Ok after dirs_task processed two
\* batches and returned.
C7_Witness ==
    /\ res.op = "extract" /\ fgpc = "returned" /\ res.result = "Ok"
    /\ bgpc = "done" /\ bgRes = "Ok" /\ ~tx /\ chan = << >>
    /\ Cardinality(enq) >= 2
    /\ AllBatchesProcessed

\* The 0-based index of the first entry without an enclosed name, -1 when
\* every entry has one.
FirstUnsafe ==
    LET unsafe(k) == enclosed_name(files[k].file_name) = << >>
    IN  IF \E k \in DOMAIN files : unsafe(k)
        THEN (CHOOSE k \in DOMAIN files :
                 unsafe(k) /\ \A j \in 1..(k - 1) : ~unsafe(j)) - 1
        ELSE -1

\* C8: the foreground never gets past the first entry without an enclosed
\* name: no batch is sent for it or a later entry, no file of it or a later
\* entry and none of its directories is created, and an extract that
\* reaches it (source in the slot, no I/O fault) returns
\* InvalidArchive("Invalid file path").
C8_PathSafety ==
    LET u == FirstUnsafe
    IN  u >= 0 =>
          /\ fgIdx <= u
          /\ \A b \in enq : b.index < u
          /\ \A k \in DOMAIN files :
                k - 1 >= u => files[k].file_name \notin DOMAIN fsFiles
          /\ \A j \in 1..Len(files[u + 1].file_name) :
                SubSeq(files[u + 1].file_name, 1, j) \notin fsDirs
          /\ (res.op = "extract" /\ fgpc = "returned" /\ fgIdx = u
                /\ res.slot /\ NoFault)
                => res.result = "InvalidArchive:Invalid file path"

\* C8 witness: extract has returned the path error at an entry that a
\* valid entry follows.
C8_Witness ==
    /\ res.op = "extract" /\ fgpc = "returned"
    /\ res.result = "InvalidArchive:Invalid file path"
    /\ FirstUnsafe >= 0 /\ fgIdx = FirstUnsafe
    /\ FirstUnsafe + 2 <= Len(files)
    /\ enclosed_name(files[FirstUnsafe + 2].file_name) # << >>

\* C9: open() of a central directory with two records of the same name
\* fails with an InvalidArchive error and yields no archive.
C9_DuplicateRejected ==
    (arch # "unopened"
        /\ \E i, j \in DOMAIN cd : i < j /\ cd[i].file_name = cd[j].file_name)
        => /\ arch = "failed"
           /\ res.result \in InvalidArchiveErrors

\* C10: an open that has found the local header of an entry whose
\* compression method is neither Stored nor Deflated returns
\* UnsupportedArchive.
C10_UnsupportedMethod ==
    (res.op \in { "by_index", "by_name" }
        /\ res.index >= 0 /\ res.index < Len(files)
        /\ files[res.index + 1].compression_method \notin { "Stored", "Deflated" }
        /\ res.result \notin { "Pending", "Cancelled", "Io", "Panic:unwrap",
                               "InvalidArchive:Invalid local file header" })
        => res.result = "UnsupportedArchive"

\* C11: a find_content that returned a Limiter for an entry has stored
\* data_start = header_start + 30 + the name length and the extra-field
\* length of the local header (as the bytes were written, whatever the
\* central record says), the Limiter starts there and is compressed_size
\* long, and the bytes read from it are the entry's payload bytes.
C11_DataStartFromLocalHeader ==
    limiter # NoLimiter =>
        LET e == lay.entries[limiter.index]
            d == datas[limiter.index]
        IN  /\ d.data_start = d.header_start + magic_and_header
                                + Len(e.name) + Len(e.local_extra)
            /\ limiter.cur_pos = d.data_start
            /\ limiter.limit = d.compressed_size
            /\ obuf = SubSeq(e.payload, 1, limiter.read)
            /\ Limiter_read(limiter, image, limiter.limit)
                   = SubSeq(e.payload, limiter.read + 1, Len(e.payload))

\* C11 witness: the Limiter of an entry whose local extra field is not as
\* long as the central record says, behind a prefix and another entry, has
\* been read to its end and has yielded the payload.
C11_Witness ==
    /\ limiter # NoLimiter
    /\ limiter.index = 2
    /\ lay.prefix > 0
    /\ Len(lay.entries[2].local_extra) # lay.entries[2].central_extra_len
    /\ limiter.read = limiter.limit
    /\ obuf = lay.entries[2].payload

\* The four bytes at the entry's header_start are there and are not the
\* local file header signature.
BadSignature(i) ==
    /\ datas[i].header_start + 4 <= Len(image)
    /\ SubSeq(image, datas[i].header_start + 1, datas[i].header_start + 4)
           # le32(LOCAL_FILE_HEADER_SIGNATURE)

\* C12: a find_content of an entry whose four bytes at header_start are not
\* the local file header signature, when the source does not fail before
\* they are read, returns InvalidArchive("Invalid local file header"), and
\* the entry's data_start is what it was before the call.
C12_BadSignatureRejected ==
    (ores.result # "none" /\ BadSignature(ores.index)
        /\ ores.io \notin { "seek_header", "read_signature" })
        => /\ ores.result = "InvalidArchive:Invalid local file header"
           /\ datas[ores.index].data_start = ores.before
           /\ limiter = NoLimiter

\* C12 witness: the second entry's signature is wrong; its find_content,
\* after the first entry was opened and read, has returned the error.
C12_Witness ==
    /\ ores.index = 2
    /\ BadSignature(2)
    /\ ores.result = "InvalidArchive:Invalid local file header"
    /\ datas[1].data_start # 0
    /\ datas[2].data_start = 0
    /\ ores.from > datas[1].data_start

\* What find_content gives for entry i on a fresh archive: fresh
\* ZipFileData, the source at position 0.
FreshOpen(i) ==
    find_content_in(Datas(lay)[i], [bytes |-> image, pos |-> 0], "none")

\* C15: a find_content on a source that was left at any position (by the
\* reads of an earlier Limiter, of the same or another entry) ends, when the
\* source does not fail, as it does on a fresh archive: the same result, the
\* same data_start, the same window; and the bytes read from the Limiter
\* are the bytes a fresh archive yields.
C15_ReopenAfterAbandon ==
    (ores.result # "none" /\ ores.io = "none")
        => LET fresh == FreshOpen(ores.index)
           IN  /\ ores.result = fresh.result
               /\ fresh.result = "Ok" =>
                    /\ datas[ores.index].data_start = fresh.data_start
                    /\ limiter # NoLimiter =>
                         /\ limiter.index = ores.index
                         /\ limiter.cur_pos = fresh.cur_pos
                         /\ limiter.limit = fresh.limit
                         /\ obuf = SubSeq(image, fresh.cur_pos + 1,
                                          fresh.cur_pos + limiter.read)

\* C15 witness: the first entry's Limiter was given up in the middle of the
\* payload; the second entry, opened from there, has been read to its end.
C15_Witness ==
    /\ limiter # NoLimiter
    /\ limiter.index = 2
    /\ ores.from > datas[1].data_start
    /\ ores.from < datas[1].data_start + datas[1].compressed_size
    /\ limiter.read = limiter.limit
    /\ obuf = lay.entries[2].payload

\* The readers the stream has yielded so far came in directory order, and
\* the stream ends after len() of them.
StreamInOrder ==
    (strm.alive /\ res.op = "stream_next")
        => /\ res.result = "Ok" => res.index = strm.i - 1
           /\ res.result = "None" => (strm.i = Len(files) /\ strm.ended)

\* C14: entries_stream yields the entries in directory order and ends
\* after len() of them; and a draw that found the source in the slot (the
\* reader yielded before was dropped) and whose open of the entry failed
\* has yielded an error value, after which the stream is at its end.
C14_EntriesStream ==
    /\ StreamInOrder
    /\ (strm.alive /\ res.op = "stream_next" /\ res.slot
            /\ res.result \notin { "Ok", "Pending", "None" })
          => /\ res.result \in ZipError
             /\ strm.ended

\* C16: an extract called right after an extract that returned Ok, on the
\* same root and with no I/O fault, returns Ok as well, and once its
\* foreground loop is through every entry's file holds the entry's bytes.
C16_ExtractTwice ==
    (res.op = "extract" /\ res.again /\ NoFault)
        => /\ fgpc \in { "join", "returned" } => AllExtracted
           /\ fgpc = "returned" => res.result = "Ok"
           /\ res.result \in { "Pending", "Ok" }

\* C16 witness: the second extract of two entries under directories has
\* returned Ok, after its dirs_task went through directories that exist.
C16_Witness ==
    /\ res.op = "extract" /\ res.again /\ NoFault
    /\ fgpc = "returned" /\ res.result = "Ok"
    /\ Len(files) >= 2
    /\ Cardinality(enq) >= 2
    /\ AllBatchesProcessed
    /\ AllExtracted

\* C17: a by_name whose name is not in the directory, and a by_index whose
\* index is not below len(), return FileNotFound and leave the slot, the
\* directory, the live entry readers and the pending future as they were.
C17_LookupMiss ==
    [][((OpenByIndex \/ OpenByName)
            /\ (res'.index = -1 \/ res'.index >= Len(files)))
        => /\ res'.result = "FileNotFound"
           /\ UNCHANGED << reader, files, cd, live, fut, strm >>]_vars

\* C17 witness: a by_index past the end was called while an entry reader
\* was alive, and returned FileNotFound with the reader still alive and the
\* slot still empty.
C17_Witness ==
    /\ res.op = "by_index" /\ res.index >= Len(files)
    /\ res.result = "FileNotFound"
    /\ res.busy /\ ~res.slot
    /\ live # {} /\ ~reader
    /\ Len(files) >= 1

\* A valid archive without ZIP64: whole records of PlainPool under distinct
\* names.
ValidDisk(d) ==
    /\ d \in GoodDisks
    /\ \A i \in DOMAIN d.recs : d.recs[i] \in PlainPool
    /\ \A i, j \in DOMAIN d.recs :
          d.recs[i].file_name = d.recs[j].file_name => i = j

\* C13: once new() has returned on a valid archive without ZIP64 that has
\* k bytes in front of it, it has returned Ok, the archive offset (what
\* offset() returns) is cde_start_pos - central_directory_size -
\* central_directory_offset = k, the directory holds the records as they
\* were written (names, order, sizes), and every header_start is the
\* recorded offset plus k.
C13_OffsetShift ==
    (npc = "done" /\ ValidDisk(disk)) =>
        /\ nres = "Ok"
        /\ counts.archive_offset = U(disk.prefix)
        /\ counts.archive_offset
              = checked_sub(checked_sub(cde.cde_start_pos,
                                        cde.footer.central_directory_size),
                            cde.footer.central_directory_offset)
        /\ Len(parsed) = Len(disk.recs)
        /\ \A i \in DOMAIN parsed :
              /\ parsed[i].file_name = disk.recs[i].file_name
              /\ parsed[i].compressed_size = disk.recs[i].compressed_size
              /\ parsed[i].uncompressed_size = disk.recs[i].uncompressed_size
              /\ ~parsed[i].large_file
              /\ parsed[i].header_start
                    = checked_add(RawOffset(disk, i), U(disk.prefix))
              /\ Index(parsed[i].header_start) = 40 * (i - 1) + disk.prefix

\* new() has returned on a valid archive of two entries behind 3 bytes.
C13_Witness ==
    /\ npc = "done" /\ nres = "Ok"
    /\ ValidDisk(disk)
    /\ disk.prefix = 3
    /\ Len(parsed) = 2
    /\ Index(parsed[2].header_start) = 43

\* The last iteration of the scan handled a whole record header and met no
\* error.
RecordHandled == xlast.start >= 0 /\ xlast.len >= 0 /\ xlast.err = "none"

\* C18: after the scan has handled a record of declared length L (kind
\* 0x0001, kind 0x9901 or any other kind), the cursor is at the start of
\* that record + 4 + L.
C18_ScanAdvancesByRecord ==
    RecordHandled => xcur = xlast.start + 4 + xlast.len

\* The part of C18 that the code keeps: records of other kinds than AES,
\* and ZIP64 records that are long enough for what is read from them.
C18_OtherKindsAdvance ==
    (/\ RecordHandled
     /\ xlast.kind # AES_KIND
     /\ 8 * Cardinality(xlast.consumed) <= xlast.len)
        => xcur = xlast.start + 4 + xlast.len

\* The 64-bit fields of a ZipFileData that a ZIP64 record can replace.
Zip64Fields == << "uncompressed_size", "compressed_size", "header_start" >>

\* How many of the fields before field k carried the sentinel in f.
RECURSIVE SentinelsBefore(_, _)
SentinelsBefore(f, k) ==
    IF k = 1 THEN 0
    ELSE SentinelsBefore(f, k - 1)
           + (IF f[Zip64Fields[k - 1]] = ZIP64_BYTES_THR THEN 1 ELSE 0)

\* C19: when a kind-0x0001 record has been parsed, each of uncompressed
\* size, compressed size and header start that carried 0xffffffff holds
\* the next 64-bit value of the record, in that order, the others are
\* unchanged, and large_file is true if and only if a 64-bit uncompressed
\* or compressed size was consumed from the record.
C19_Zip64Promotion ==
    (/\ xlast.start >= 0 /\ xlast.kind = ZIP64_KIND /\ xlast.len >= 0
     /\ npc \in { "extra", "finish" }) =>
        /\ xlast.err = "none" =>
              \A k \in 1..3 :
                LET field == Zip64Fields[k]
                    was == xlast.before[field]
                IN  file_data[field] =
                      IF was = ZIP64_BYTES_THR
                      THEN read_u64_le(xlast.before.extra_field,
                                       xlast.start + 4
                                         + 8 * SentinelsBefore(xlast.before, k))
                      ELSE was
        /\ file_data.large_file <=>
              xlast.consumed \cap { "uncompressed_size", "compressed_size" }
                # {}

\* The part of C19 that the code keeps: the replacement of the fields of a
\* record parsed without error, and large_file after such a record.
C19_PromotionOfWholeRecord ==
    (/\ xlast.start >= 0 /\ xlast.kind = ZIP64_KIND /\ xlast.len >= 0
     /\ npc \in { "extra", "finish" }
     /\ xlast.err = "none") =>
        /\ \A k \in 1..3 :
              LET field == Zip64Fields[k]
                  was == xlast.before[field]
              IN  file_data[field] =
                    IF was = ZIP64_BYTES_THR
                    THEN read_u64_le(xlast.before.extra_field,
                                     xlast.start + 4
                                       + 8 * SentinelsBefore(xlast.before, k))
                    ELSE was
        /\ file_data.large_file <=>
              xlast.consumed \cap { "uncompressed_size", "compressed_size" }
                # {}

\* The errors of the scan that are not the end of the extra-field bytes.
Structural == xlast.err \notin { "none", "Io" }

\* C20 as stated: when the scan met the end of the extra-field bytes inside
\* a record, central_header_to_zip_file returns Ok; when it met a
\* structural error, that error is what central_header_to_zip_file and
\* new() return.
C20_TruncatedFieldTolerated ==
    (xlast.start >= 0 /\ hres \notin { "none", "Pending" }) =>
        /\ xlast.err = "Io" => hres = "Ok"
        /\ Structural => hres = xlast.err /\ nres = xlast.err

\* C20, amended: the end of the extra-field bytes inside a record is not
\* returned: the header is parsed on with the ZipFileData as the scan left
\* it, which fails only when the method is still AES and no AES record was
\* parsed, or when the shifted header start overflows, and otherwise
\* returns that ZipFileData with header_start shifted, which new() inserts.
\* A structural error of the scan is what central_header_to_zip_file and
\* new() return, and nothing is inserted.
C20_TruncationThenChecks ==
    [][(HeaderFinish /\ xlast.err # "none") =>
         IF xlast.err = "Io"
         THEN IF file_data.compression_method = "AES"
                   /\ file_data.aes_mode = << >>
              THEN /\ hres' = "InvalidArchive:AES encryption without AES extra data field"
                   /\ nres' = hres' /\ parsed' = parsed
              ELSE IF checked_add(file_data.header_start,
                                  counts.archive_offset) = << >>
              THEN /\ hres' = "InvalidArchive:Archive header is too large"
                   /\ nres' = hres' /\ parsed' = parsed
              ELSE /\ hres' = "Ok"
                   /\ file_data' =
                        [file_data EXCEPT !.header_start =
                           checked_add(@, counts.archive_offset)]
                   /\ nres' \in { "Ok", "Pending", "Panic:assert" }
                   /\ nres' # "Panic:assert" =>
                        parsed' = Append(parsed, file_data')
         ELSE hres' = xlast.err /\ nres' = xlast.err /\ parsed' = parsed
      ]_vars

\* new() has returned Ok with an entry whose ZIP64 record ended after its
\* first 64-bit value: the uncompressed size read before the end is kept.
C20_Witness ==
    /\ npc = "done" /\ nres = "Ok" /\ hres = "Ok"
    /\ xlast.err = "Io"
    /\ xlast.consumed = { "uncompressed_size" }
    /\ parsed[Len(parsed)].uncompressed_size = Wide1
    /\ parsed[Len(parsed)].compressed_size = ZIP64_BYTES_THR

\* C26: when extract has returned, with Ok or with an error, dirs_task has
\* terminated (so it makes no mkdir and no registry write afterwards).
C26_TaskEndedAtReturn ==
    (res.op = "extract" /\ fgpc = "returned") => bgpc = "done"

\* The part of C26 that the code keeps: an extract that went through its
\* join returns after dirs_task has.
C26_JoinedReturn ==
    (res.op = "extract" /\ fgpc = "returned" /\ fgIdx >= Len(files))
        => (bgpc = "done" /\ res.result = bgRes)

\* C23: during an extract the registry only grows; every path in it is a
\* directory under root that an idempotent mkdir has created or found; and
\* the registry writes of the foreground fallback and of dirs_task add only
\* paths whose mkdir has succeeded before the write.
C23_RegistryInvariant ==
    /\ [](paths \subseteq fsDirs)
    /\ [][~ExtractStart => paths \subseteq paths']_vars
    /\ [][(BgWrite \/ FgFallbackWrite) =>
            /\ (paths' \ paths) \subseteq fsDirs
            /\ BgWrite => \A k \in DOMAIN bgBatch : bgBatch[k] \in fsDirs
            /\ FgFallbackWrite => \A k \in DOMAIN fgDirs : fgDirs[k] \in fsDirs
         ]_vars

\* C23 witness: two batches were sent and drained, the registry holds their
\* directories, all on disk, while the foreground copies the second entry.
C23_Witness ==
    /\ res.op = "extract"
    /\ fgpc = "copy" /\ fgIdx = 1
    /\ bgpc = "recv" /\ chan = << >>
    /\ paths = { << "a" >>, << "a", "b" >> }
    /\ paths \subseteq fsDirs
    /\ Cardinality(enq) = 2

\* The positions of the foreground inside extract_single.
InExtractSingle == { "create", "fb_needed", "fb_mkdir", "fb_write", "retry", "copy" }

\* C22: in extract_single the fallback starts only from a first creation
\* that failed with not-found; it makes the ancestors the registry does not
\* list, in order, writes them to the registry once all exist, and retries
\* the creation once, from where the foreground goes to the copy or
\* returns; a failure of the retry, any other creation error, any mkdir
\* error and any copy error make extract return that error with the entry
\* index where it stood, and a returned extract touches no file.
C22_OneShotSelfHeal ==
    /\ [][(fgpc # "fb_needed" /\ fgpc' = "fb_needed") =>
            /\ fgpc = "create"
            /\ file_create(fsDirs, fsFiles, FgName, FALSE) = "NotFound"
         ]_vars
    /\ [][(fgpc = "fb_needed" /\ fgpc' # "fb_needed") =>
            /\ fgDirs' = new_containing_dirs_needed(paths, FgName)
            /\ fgpc' \in { "fb_mkdir", "fb_write" }
         ]_vars
    /\ [](fgpc = "retry" =>
            /\ \A k \in 1..(Len(FgName) - 1) :
                  SubSeq(FgName, 1, k) \in paths
            /\ \A k \in DOMAIN fgDirs :
                  fgDirs[k] \in fsDirs /\ fgDirs[k] \in paths)
    /\ [][(fgpc = "retry" /\ fgpc' # "retry") =>
            fgpc' \in { "copy", "returned" }]_vars
    /\ [][(fgpc \in InExtractSingle /\ fgpc' = "returned") =>
            /\ fgpc \in { "create", "fb_mkdir", "retry", "copy" }
            /\ res'.result = "Io"
            /\ fgIdx' = fgIdx
         ]_vars
    /\ [][(fgpc = "returned" /\ ~ExtractStart) =>
            /\ fgpc' = "returned" /\ fgIdx' = fgIdx
            /\ fsFiles' = fsFiles
         ]_vars

\* C22 witness: the first creation of a/f failed with not-found while the
\* batch was still queued, the fallback made and registered a, the retry
\* succeeded and the foreground is at the copy.
C22_Witness ==
    /\ res.op = "extract" /\ fgpc = "copy" /\ fgIdx = 0
    /\ FgName = << "a", "f" >>
    /\ fgDirs = << << "a" >> >>
    /\ chan # << >> /\ bgpc = "recv"
    /\ << "a" >> \in paths /\ << "a" >> \in fsDirs
    /\ FgName \in DOMAIN fsFiles

\* The seek to end_of_file - (20 + 22 + comment_length) fails: the source
\* fails it, or the file is shorter than that.
LocatorSeekFails(d) ==
    d.io = "seek_locator" \/ FileLen(d) < 20 + 22 + d.comment_len

\* get_directory_counts has taken the non-ZIP64 path: the archive offset is
\* cde_start_pos - central_directory_size - central_directory_offset, the
\* directory starts central_directory_size before the
\* end-of-central-directory record and has as many files as that record
\* says; or these subtractions cannot be made.
NonZip64Path ==
    LET f == cde.footer
        span == checked_add(f.central_directory_size,
                            f.central_directory_offset)
    IN  IF Leq(span, cde.cde_start_pos)
        THEN /\ counts.result = "Ok"
             /\ checked_add(counts.archive_offset, span) = cde.cde_start_pos
             /\ checked_add(counts.directory_start, f.central_directory_size)
                   = cde.cde_start_pos
             /\ counts.number_of_files = f.number_of_files_on_this_disk
        ELSE /\ counts.result
                   = "InvalidArchive:Invalid central directory size or offset"
             /\ nres = counts.result

\* C21 as stated: without locator signature at the position the archive is
\* parsed on the non-ZIP64 path; an I/O error of the seek to the locator or
\* of its parse is what new() returns.
C21_LocatorResolution ==
    counts.result # "none" =>
        /\ (disk.io = "none" /\ ~LocatorSeekFails(disk)
               /\ ~disk.locator.present) => NonZip64Path
        /\ disk.io # "none" => (counts.result = "Io" /\ nres = "Io")

\* C21, amended: without locator signature at the position, and also when
\* the seek to the position fails (the file is shorter, or the source
\* fails the seek), the archive is parsed on the non-ZIP64 path; an I/O
\* error of the locator parse after a seek that succeeded is what new()
\* returns, and nothing is parsed.
C21_LocatorOrSeekFailure ==
    counts.result # "none" =>
        /\ (LocatorSeekFails(disk)
               \/ (disk.io = "none" /\ ~disk.locator.present)) => NonZip64Path
        /\ (disk.io = "read_locator" /\ ~LocatorSeekFails(disk)) =>
              /\ counts.result = "Io" /\ nres = "Io"
              /\ npc = "done" /\ parsed = << >>

\* C21 witness: a file with 3 bytes in front, one entry and a comment, and
\* no ZIP64 locator, has been opened on the non-ZIP64 path.
C21_Witness ==
    /\ npc = "done" /\ nres = "Ok"
    /\ disk \in TrailerDisks /\ disk.io = "none" /\ ~LocatorSeekFails(disk)
    /\ disk.prefix = 3 /\ disk.comment_len = 2
    /\ Len(parsed) = 1
    /\ counts.archive_offset = U(3)

\* The error values ZipArchive::new returns.
OpenErrors ==
    { "Io",
      "UnsupportedArchive:Support for multi-disk files is not implemented",
      "InvalidArchive:Invalid central directory size or offset",
      "InvalidArchive:File cannot contain ZIP64 central directory end",
      "InvalidArchive:Could not find ZIP64 central directory end",
      "InvalidArchive:Invalid Central Directory header",
      "InvalidArchive:AES encryption without AES extra data field",
      "InvalidArchive:Archive header is too large",
      "UnsupportedArchive:AES extra data field has an unsupported length",
      "InvalidArchive:Invalid AES vendor",
      "InvalidArchive:Invalid AES vendor version",
      "InvalidArchive:Invalid AES encryption strength" }

\* No two records of the directory carry the same name.
DistinctNames(d) ==
    \A i, j \in DOMAIN d.recs :
        d.recs[i].file_name = d.recs[j].file_name => i = j

\* C24: whatever the position of the end-of-central-directory record, its
\* comment length, size and offset, the locator's offset and the ZIP64
\* record's offset, get_directory_counts returns three 64-bit values or an
\* error value, and new() returns Ok or an error value (the directory
\* having distinct names: the insert of a second record of the same name
\* is not a matter of locating the directory).
C24_LocationNeverPanics ==
    /\ counts.result \in { "none", "Ok" } \cup OpenErrors
    /\ counts.result = "Ok" =>
          /\ Len(counts.archive_offset) = 4
          /\ Len(counts.directory_start) = 4
          /\ Leq(counts.directory_start, cde.cde_start_pos)
                \/ disk.locator.present
    /\ (npc = "done" /\ DistinctNames(disk)) =>
          nres \in { "Ok" } \cup OpenErrors

\* C24 witness: the end-of-central-directory record of a file with a ZIP64
\* locator was found below byte 60, and new() has returned the error.
C24_Witness ==
    /\ npc = "done"
    /\ disk.locator.present /\ disk.io = "none"
    /\ EocdPos(disk) < 60
    /\ nres = "InvalidArchive:File cannot contain ZIP64 central directory end"

\* The exact value of header_start + 30 + local name length + local extra
\* length of the find_content under way, << >> when it is not a u64.
WideExact ==
    Sum4(wide.header_start, U(magic_and_header),
         U(read_u16_le(wide.src.bytes, 26)),
         U(read_u16_le(wide.src.bytes, 28)))

\* C25: for every header_start that directory parsing accepts, the
\* data-start computation of find_content stays within the unsigned 64-bit
\* range: it does not panic on overflow, and the data_start it stores is
\* the exact sum header_start + 30 + local name length + local extra length.
C25_DataStartInRange ==
    /\ wide.found.result # "Panic:overflow"
    /\ wide.found.stored => wide.found.data_start = WideExact

\* The sum does stay in range wherever the header starts at least
\* 30 + 65535 + 65535 bytes below 2^64: only a header_start in the last
\* 131100 positions of the 64-bit range can push it out.
C25_InRangeBelowLimit ==
    (/\ wide.found.result # "none"
     /\ Leq(wide.header_start, << 65535, 65533, 65535, 65535 >>))
        => C25_DataStartInRange

====
